---- MODULE Spec2Model ----
(***************************************************************************)
(* Model of the retrieval-and-ranking pipeline of the furniture search     *)
(* backend: performSearch (backend/src/services/searchService.ts), the     *)
(* process-wide embedding cache (getProductEmbeddings, createQueryEmbedding,*)
(* cosineSimilarity; same file, lines 390-523) and the provider clients    *)
(* (unnamed/part_002, aiProvider.ts).                                      *)
(*                                                                         *)
(* Conventions.                                                            *)
(*  - Text is a TLA+ string; a character is a string of length 1.          *)
(*  - A JavaScript number that is a score or a weight is an integer count  *)
(*    of thousandths ("milli"); a composite score, the sum of products of  *)
(*    two such numbers, is a count of millionths ("micro").  Divisions     *)
(*    round toward minus infinity.                                         *)
(*  - An absent optional string (undefined) and the empty string are both  *)
(*    "" : the code only ever tests such values for truthiness.            *)
(*  - One action is one run of JavaScript between two awaits.              *)
(***************************************************************************)
EXTENDS Integers, Sequences, FiniteSets, TLC

(***************************************************************************)
(* Bounds of the model.                                                    *)
(***************************************************************************)
NumRequests == 2
\* requests served one after another in one process lifetime
MaxServed == 1

Max(S) == CHOOSE x \in S : \A y \in S : x >= y
Abs(x) == IF x < 0 THEN -x ELSE x
MinOf(a, b) == IF a <= b THEN a ELSE b
MaxOf(a, b) == IF a >= b THEN a ELSE b

\* the least element of a non-empty set of integers
Least(S) == CHOOSE x \in S : \A y \in S : x <= y

(***************************************************************************)
(* JavaScript string operations used by the pipeline.                      *)
(***************************************************************************)
CharAt(s, i) == SubSeq(s, i, i)

\* \s of a JavaScript regular expression and the characters trim() removes
WhiteSpace == {" ", "\n", "\t"}
IsSpace(c) == c \in WhiteSpace

UpperChars == "ABCDEFGHIJKLMNOPQRSTUVWXYZ"
LowerChars == "abcdefghijklmnopqrstuvwxyz"
DigitChars == "0123456789"

UpperSet == {CharAt(UpperChars, i) : i \in 1..26}
LowerSet == {CharAt(LowerChars, i) : i \in 1..26}
DigitSet == {CharAt(DigitChars, i) : i \in 1..10}

LowerOf ==
  [c \in UpperSet |->
     CharAt(LowerChars, CHOOSE i \in 1..26 : CharAt(UpperChars, i) = c)]

\* s from position i on, with the characters at the positions ups (the
\* positions >= i that hold an upper-case letter) in lower case
RECURSIVE LowerFrom(_, _, _)
LowerFrom(s, i, ups) ==
  IF ups = {} THEN SubSeq(s, i, Len(s))
  ELSE LET u == Least(ups)
       IN SubSeq(s, i, u - 1) \o LowerOf[CharAt(s, u)]
            \o LowerFrom(s, u + 1, ups \ {u})

ToLowerCase(s) ==
  LowerFrom(s, 1, {k \in 1..Len(s) : CharAt(s, k) \in UpperSet})

\* the first position >= i that holds no white space (Len(s) + 1 if none)
RECURSIVE SkipSpaces(_, _)
SkipSpaces(s, i) ==
  IF i <= Len(s) /\ IsSpace(CharAt(s, i)) THEN SkipSpaces(s, i + 1) ELSE i

\* the last position <= i that holds no white space (0 if none)
RECURSIVE SkipSpacesBack(_, _)
SkipSpacesBack(s, i) ==
  IF i >= 1 /\ IsSpace(CharAt(s, i)) THEN SkipSpacesBack(s, i - 1) ELSE i

Trim(s) == SubSeq(s, SkipSpaces(s, 1), SkipSpacesBack(s, Len(s)))

StartsWithAt(s, p, i) ==
  /\ i + Len(p) - 1 <= Len(s)
  /\ SubSeq(s, i, i + Len(p) - 1) = p

StartsWith(s, p) == StartsWithAt(s, p, 1)

\* the first position >= i where p occurs in s, 0 if there is none
IndexFrom(s, p, i) ==
  LET at == {k \in i..(Len(s) - Len(p) + 1) : SubSeq(s, k, k + Len(p) - 1) = p}
  IN IF at = {} THEN 0 ELSE Least(at)

IndexOf(s, p) == IndexFrom(s, p, 1)

\* String.prototype.includes: the empty string is included in every string
Includes(s, p) ==
  \E k \in 1..(Len(s) - Len(p) + 1) : SubSeq(s, k, k + Len(p) - 1) = p

\* String.prototype.replace with a string pattern: the first occurrence only
ReplaceFirst(s, p, r) ==
  LET at == IndexOf(s, p)
  IN IF at = 0 THEN s
     ELSE SubSeq(s, 1, at - 1) \o r \o SubSeq(s, at + Len(p), Len(s))

\* s.replace(/s$/, "")
StripTrailingS(s) ==
  IF Len(s) > 0 /\ CharAt(s, Len(s)) = "s" THEN SubSeq(s, 1, Len(s) - 1) ELSE s

RECURSIVE JoinWith(_, _)
JoinWith(parts, sep) ==
  IF Len(parts) = 0 THEN ""
  ELSE IF Len(parts) = 1 THEN parts[1]
  ELSE parts[1] \o sep \o JoinWith(Tail(parts), sep)

\* Array.prototype.filter(Boolean) on strings: drops the empty ones
FilterNonEmpty(parts) == SelectSeq(parts, LAMBDA x : x # "")

(***************************************************************************)
(* The regular expressions of performSearch.                               *)
(***************************************************************************)
\* last position of the run of [^\n] that starts at position j
RECURSIVE LineEnd(_, _)
LineEnd(s, j) ==
  IF j <= Len(s) /\ CharAt(s, j) # "\n" THEN LineEnd(s, j + 1) ELSE j - 1

\* the last position in p..q that holds a character other than \n, 0 if none
RECURSIVE LastNonNewline(_, _, _)
LastNonNewline(s, p, q) ==
  IF q < p THEN 0
  ELSE IF q <= Len(s) /\ CharAt(s, q) # "\n" THEN q
  ELSE LastNonNewline(s, p, q - 1)

\* the flag i: both sides are compared in lower case; ls and lp are the
\* subject and the prefix in lower case
PrefixAt(ls, lp, i) ==
  /\ i + Len(lp) - 1 <= Len(ls)
  /\ SubSeq(ls, i, i + Len(lp) - 1) = lp

\* where the group ([^\n]+) of /<prefix>\s*([^\n]+)/i starts when the prefix
\* is matched at position i; 0 when the expression does not match there.
\* \s* is greedy and gives characters back until the group can match.
LineGroupStartAt(ls, lp, i) ==
  IF PrefixAt(ls, lp, i)
  THEN LastNonNewline(ls, i + Len(lp), SkipSpaces(ls, i + Len(lp)))
  ELSE 0

\* the first position >= i where /<prefix>\s*([^\n]+)/i matches, 0 if none
LineMatchFrom(ls, lp, i) ==
  LET at == {k \in i..Len(ls) : LineGroupStartAt(ls, lp, k) # 0}
  IN IF at = {} THEN 0 ELSE Least(at)

\* s.match(/<prefix>\s*([^\n]+)/i): [found, group 1]
MatchLineField(s, prefix) ==
  LET ls == ToLowerCase(s)
      lp == ToLowerCase(prefix)
      at == LineMatchFrom(ls, lp, 1)
      g == LineGroupStartAt(ls, lp, at)
  IN IF at = 0 THEN [found |-> FALSE, value |-> ""]
     ELSE [found |-> TRUE, value |-> SubSeq(s, g, LineEnd(s, g))]

\* the first position >= i where the prefix matches and a character follows
RestMatchFrom(ls, lp, i) ==
  LET at == IndexFrom(ls, lp, i)
  IN IF at # 0 /\ at + Len(lp) <= Len(ls) THEN at ELSE 0

\* s.match(/<prefix>\s*([\s\S]+)/i): [found, group 1]
MatchRestField(s, prefix) ==
  LET at == RestMatchFrom(ToLowerCase(s), ToLowerCase(prefix), 1)
      p == at + Len(prefix)
      g == IF SkipSpaces(s, p) <= Len(s) THEN SkipSpaces(s, p) ELSE Len(s)
  IN IF at = 0 THEN [found |-> FALSE, value |-> ""]
     ELSE [found |-> TRUE, value |-> SubSeq(s, g, Len(s))]

IsDigit(c) == c \in DigitSet
DigitValue(c) == (CHOOSE i \in 1..10 : CharAt(DigitChars, i) = c) - 1

\* last position of the run of \d that starts at position j (j - 1 if none)
RECURSIVE DigitRunEnd(_, _)
DigitRunEnd(s, j) ==
  IF j <= Len(s) /\ IsDigit(CharAt(s, j)) THEN DigitRunEnd(s, j + 1) ELSE j - 1

\* parseFloat of a string of digits
RECURSIVE ParseDigits(_)
ParseDigits(s) ==
  IF s = "" THEN 0
  ELSE 10 * ParseDigits(SubSeq(s, 1, Len(s) - 1)) + DigitValue(CharAt(s, Len(s)))

\* the first position >= i where /\$(\d+)/ matches, 0 if none
RECURSIVE CurrencyMatchFrom(_, _)
CurrencyMatchFrom(q, i) ==
  IF i >= Len(q) THEN 0
  ELSE IF CharAt(q, i) = "$" /\ IsDigit(CharAt(q, i + 1)) THEN i
  ELSE CurrencyMatchFrom(q, i + 1)

\* /(\d+)\s*dollars?/i matches at position i
DollarsAt(q, i) ==
  /\ IsDigit(CharAt(q, i))
  /\ LET d == SkipSpaces(q, DigitRunEnd(q, i) + 1)
     IN /\ d + 5 <= Len(q)
        /\ ToLowerCase(SubSeq(q, d, d + 5)) = "dollar"

\* the first position >= i where /(\d+)\s*dollars?/i matches, 0 if none
RECURSIVE DollarsMatchFrom(_, _)
DollarsMatchFrom(q, i) ==
  IF i > Len(q) THEN 0
  ELSE IF DollarsAt(q, i) THEN i
  ELSE DollarsMatchFrom(q, i + 1)

\* q.match(/\$(\d+)/i) || q.match(/(\d+)\s*dollars?/i), then parseFloat of
\* group 1: [found, value]; found = FALSE is targetPrice = null
ExtractTargetPrice(q) ==
  LET cur == CurrencyMatchFrom(q, 1)
      dol == DollarsMatchFrom(q, 1)
  IN IF cur # 0
     THEN [found |-> TRUE,
           value |-> ParseDigits(SubSeq(q, cur + 1, DigitRunEnd(q, cur + 1)))]
     ELSE IF dol # 0
     THEN [found |-> TRUE,
           value |-> ParseDigits(SubSeq(q, dol, DigitRunEnd(q, dol)))]
     ELSE [found |-> FALSE, value |-> 0]

(***************************************************************************)
(* Scoring (searchService.ts, lines 216-341 and 371-388, 505-523).         *)
(***************************************************************************)
IsTokenChar(c) == c \in LowerSet \/ c \in DigitSet

\* the first position >= i that holds a character of [a-z0-9]
RECURSIVE TokenStart(_, _)
TokenStart(s, i) ==
  IF i <= Len(s) /\ ~IsTokenChar(CharAt(s, i)) THEN TokenStart(s, i + 1) ELSE i

\* the last position of the run of [a-z0-9] that starts at position i
RECURSIVE TokenEnd(_, _)
TokenEnd(s, i) ==
  IF i < Len(s) /\ IsTokenChar(CharAt(s, i + 1)) THEN TokenEnd(s, i + 1) ELSE i

\* the non-empty pieces, from position i on, left by a split on runs of \s
\* after every character outside [a-z0-9\s] has been replaced by a space
RECURSIVE SplitTokens(_, _)
SplitTokens(s, i) ==
  LET b == TokenStart(s, i)
      e == TokenEnd(s, b)
  IN IF b > Len(s) THEN <<>>
     ELSE <<SubSeq(s, b, e)>> \o SplitTokens(s, e + 1)

\* s without its characters outside [a-z0-9\s]
RECURSIVE DeleteNonTokenChars(_)
DeleteNonTokenChars(s) ==
  IF s = "" THEN ""
  ELSE (IF IsTokenChar(CharAt(s, 1)) \/ IsSpace(CharAt(s, 1))
        THEN CharAt(s, 1) ELSE "")
       \o DeleteNonTokenChars(SubSeq(s, 2, Len(s)))

\* a variant that deletes the characters outside [a-z0-9\s] instead of
\* replacing them by a space
tokenizeDeleting(text) == SplitTokens(DeleteNonTokenChars(ToLowerCase(text)), 1)

tokenize(text) == SplitTokens(ToLowerCase(text), 1)

\* overlap / qTokens.length, in milli
computeLexicalScore(query, text) ==
  LET qTokens == tokenize(query)
      tSeq == tokenize(text)
      tTokens == {tSeq[i] : i \in 1..Len(tSeq)}
      overlap == Cardinality({i \in 1..Len(qTokens) : qTokens[i] \in tTokens})
  IN IF Len(qTokens) = 0 \/ tTokens = {} THEN 0
     ELSE (overlap * 1000) \div Len(qTokens)

similarTypes(key) ==
  CASE key = "bench"   -> <<"bench", "stool", "seat", "ottoman">>
    [] key = "chair"   -> <<"chair", "seat", "stool", "armchair", "recliner">>
    [] key = "sofa"    -> <<"sofa", "couch", "loveseat", "settee", "divan">>
    [] key = "desk"    -> <<"desk", "table", "workstation", "writing desk">>
    [] key = "table"   -> <<"table", "desk", "counter", "dining table",
                            "coffee table", "side table">>
    [] key = "cabinet" -> <<"cabinet", "cupboard", "wardrobe", "armoire">>
    [] key = "shelf"   -> <<"shelf", "shelving", "bookcase", "bookshelf">>
    [] key = "bed"     -> <<"bed", "mattress", "headboard">>
    [] key = "dresser" -> <<"dresser", "chest", "bureau", "drawer">>
    [] key = "lamp"    -> <<"lamp", "light", "lighting">>
    [] OTHER           -> <<>>

\* the lower-case property names an object literal inherits from
\* Object.prototype: similarTypes[key] is then a function or an object,
\* which is truthy and has no method some
InheritedKeys == { "constructor", "__proto__" }

\* lines 268-269: similarTypes[queryType] || similarTypes[queryTypeSingular]
\* || [] is an array
similarIsArray(queryType, queryTypeSingular) ==
  IF similarTypes(queryType) # <<>> THEN TRUE
  ELSE IF queryType \in InheritedKeys THEN FALSE
  ELSE similarTypes(queryTypeSingular) # <<>>
         \/ queryTypeSingular \notin InheritedKeys

\* lines 239-251: the value of the first of the three tests on the type
\* field, the title and the description that applies, in milli; 0 if none
typeTextMatch(queryType, product) ==
  LET queryTypeSingular == StripTrailingS(queryType)
      productType == Trim(ToLowerCase(product.type))
      productTypeSingular == StripTrailingS(productType)
      productTitle == ToLowerCase(product.title)
      productDesc == ToLowerCase(product.description)
  IN IF \/ productType = queryType
        \/ productTypeSingular = queryType
        \/ productType = queryTypeSingular
     THEN 1000
     ELSE IF \/ Includes(productType, queryType)
             \/ Includes(queryType, productType)
             \/ Includes(productType, queryTypeSingular)
             \/ Includes(queryTypeSingular, productType)
     THEN 800
     ELSE IF \/ Includes(productTitle, queryType)
             \/ Includes(productTitle, queryTypeSingular)
             \/ Includes(productDesc, queryType)
             \/ Includes(productDesc, queryTypeSingular)
     THEN 600
     ELSE 0

\* line 269: similar.some is called on a value that is not an array, which
\* throws a TypeError out of candidates.map
typeMatchThrows(analysisType, product) ==
  /\ analysisType # ""
  /\ LET queryType == Trim(ToLowerCase(analysisType))
     IN /\ typeTextMatch(queryType, product) = 0
        /\ ~similarIsArray(queryType, StripTrailingS(queryType))

\* typeMatchScore of one product, in milli; analysisType is analysis.type.
\* Where typeMatchThrows holds the code produces no value
typeMatchScore(analysisType, product) ==
  IF analysisType = "" THEN 0
  ELSE
    LET queryType == Trim(ToLowerCase(analysisType))
        queryTypeSingular == StripTrailingS(queryType)
        productType == Trim(ToLowerCase(product.type))
        productTitle == ToLowerCase(product.title)
        productDesc == ToLowerCase(product.description)
        similar == IF Len(similarTypes(queryType)) > 0
                   THEN similarTypes(queryType)
                   ELSE similarTypes(queryTypeSingular)
        hit(t) == LET tSingular == StripTrailingS(t)
                  IN \/ Includes(productType, t)
                     \/ Includes(productType, tSingular)
                     \/ Includes(productTitle, t)
                     \/ Includes(productTitle, tSingular)
                     \/ Includes(productDesc, t)
                     \/ Includes(productDesc, tSingular)
    IN IF typeTextMatch(queryType, product) > 0
       THEN typeTextMatch(queryType, product)
       ELSE IF \E k \in 1..Len(similar) : hit(similar[k])
       THEN 400
       ELSE 0

\* categoryMatchScore of one product, in milli
categoryMatchScore(analysisCategory, product) ==
  IF analysisCategory = "" THEN 0
  ELSE
    LET productCategory == ToLowerCase(product.category)
        queryCategory == ToLowerCase(analysisCategory)
    IN IF productCategory = queryCategory THEN 1000
       ELSE IF \/ Includes(productCategory, queryCategory)
               \/ Includes(queryCategory, productCategory)
       THEN 700
       ELSE 0

\* the sum of the prices at positions lo..hi
RECURSIVE SumPricesIn(_, _, _)
SumPricesIn(products, lo, hi) ==
  IF lo > hi THEN 0
  ELSE IF lo = hi THEN products[lo].price
  ELSE LET mid == (lo + hi) \div 2
       IN SumPricesIn(products, lo, mid) + SumPricesIn(products, mid + 1, hi)

SumPrices(products) == SumPricesIn(products, 1, Len(products))

\* priceScore of one product, in milli; products is the (price-range
\* filtered) list the candidates were sliced from
priceScore(config, targetPrice, product, products) ==
  IF config.priceProximityWeight > 0
  THEN IF targetPrice.found
       THEN LET priceDiff == Abs(product.price - targetPrice.value)
                maxPrice == MaxOf(product.price, targetPrice.value)
            IN IF maxPrice > 0
               THEN 1000 - MinOf((priceDiff * 1000) \div maxPrice, 1000)
               ELSE 0
       ELSE \* avgPrice = sum / n, so priceDiff / avgPrice = |price * n - sum| / sum
            LET sum == SumPrices(products)
                n == Len(products)
            IN IF sum > 0
               THEN 1000 - MinOf((Abs(product.price * n - sum) * 1000) \div sum, 500)
               ELSE 500
  ELSE 0

RECURSIVE ISqrtIn(_, _, _)
ISqrtIn(lo, hi, n) ==
  IF lo >= hi THEN lo
  ELSE LET mid == (lo + hi + 1) \div 2
       IN IF mid * mid <= n THEN ISqrtIn(mid, hi, n) ELSE ISqrtIn(lo, mid - 1, n)

\* floor of the square root (46340 is the largest root of a 32-bit integer)
ISqrt(n) == ISqrtIn(0, MinOf(n, 46340), n)

\* a variant that runs over the longer vector, the shorter one padded with 0
cosineSimilarityPadded(a, b) ==
  LET maxLength == MaxOf(Len(a), Len(b))
      at(v, i) == IF i <= Len(v) THEN v[i] ELSE 0
      F[i \in 0..maxLength] ==
        IF i = 0 THEN [dot |-> 0, normA |-> 0, normB |-> 0]
        ELSE [dot   |-> F[i - 1].dot + at(a, i) * at(b, i),
              normA |-> F[i - 1].normA + at(a, i) * at(a, i),
              normB |-> F[i - 1].normB + at(b, i) * at(b, i)]
      r == F[maxLength]
  IN IF maxLength = 0 THEN 0
     ELSE IF r.normA = 0 \/ r.normB = 0 THEN 0
     ELSE LET q == ISqrt((r.dot * r.dot * 1000000) \div (r.normA * r.normB))
          IN IF r.dot < 0 THEN -q ELSE q

\* cosineSimilarity of two vectors of integers, in milli, rounded toward 0
cosineSimilarity(a, b) ==
  LET minLength == MinOf(Len(a), Len(b))
      F[i \in 0..minLength] ==
        IF i = 0 THEN [dot |-> 0, normA |-> 0, normB |-> 0]
        ELSE [dot   |-> F[i - 1].dot + a[i] * b[i],
              normA |-> F[i - 1].normA + a[i] * a[i],
              normB |-> F[i - 1].normB + b[i] * b[i]]
      r == F[minLength]
  IN IF minLength = 0 THEN 0
     ELSE IF r.normA = 0 \/ r.normB = 0 THEN 0
     ELSE LET q == ISqrt((r.dot * r.dot * 1000000) \div (r.normA * r.normB))
          IN IF r.dot < 0 THEN -q ELSE q

(***************************************************************************)
(* Provider clients (aiProvider.ts).  An upstream failure is what the      *)
(* vendor SDK throws: [status, message].  A thrown Error is [kind,         *)
(* message]; kind names the throw statement that created it.               *)
(***************************************************************************)
NoError == [kind |-> "", message |-> ""]

MessageOrUnknown(m) == IF m = "" THEN "Unknown error" ELSE m

\* the catch blocks of analyzeImage of the three providers
analyzeImageError(provider, e) ==
  CASE provider = "openai" ->
         IF e.status = 401 \/ Includes(e.message, "Invalid API key")
         THEN [kind |-> "auth", message |->
                 "Invalid OpenAI API key. Please check your API key and try again."]
         ELSE IF e.status = 429 \/ Includes(e.message, "rate limit")
         THEN [kind |-> "rateLimit", message |->
                 "OpenAI API rate limit exceeded. Please wait a moment and try again."]
         ELSE [kind |-> "transport", message |->
                 "OpenAI API error: " \o MessageOrUnknown(e.message)]
    [] provider = "anthropic" ->
         IF e.status = 401 \/ Includes(e.message, "invalid_api_key")
         THEN [kind |-> "auth", message |->
                 "Invalid Anthropic API key. Please check your API key and try again."]
         ELSE IF e.status = 429 \/ Includes(e.message, "rate_limit")
         THEN [kind |-> "rateLimit", message |->
                 "Anthropic API rate limit exceeded. Please wait a moment and try again."]
         ELSE [kind |-> "transport", message |->
                 "Anthropic API error: " \o MessageOrUnknown(e.message)]
    [] provider = "google" ->
         IF Includes(e.message, "API_KEY_INVALID") \/ Includes(e.message, "401")
         THEN [kind |-> "auth", message |->
                 "Invalid Google API key. Please check your API key and try again."]
         ELSE IF Includes(e.message, "429") \/ Includes(e.message, "RESOURCE_EXHAUSTED")
         THEN [kind |-> "rateLimit", message |->
                 "Google API rate limit exceeded. Please wait a moment and try again."]
         ELSE [kind |-> "transport", message |->
                 "Google API error: " \o MessageOrUnknown(e.message)]

\* createEmbeddings of the anthropic client: throws before any upstream call
AnthropicEmbeddingsError ==
  [kind |-> "unsupported", message |->
     "Anthropic does not provide a native embeddings API. Please use OpenAI for embeddings or configure a different provider for embeddings."]

\* a provider variant declares whether it can embed
SupportsEmbeddings(provider) == provider # "anthropic"

\* the catch blocks of createEmbeddings of the openai and google providers
createEmbeddingsError(provider, e) ==
  CASE provider = "openai" ->
         IF e.status = 401 \/ Includes(e.message, "Invalid API key")
         THEN [kind |-> "auth", message |->
                 "Invalid OpenAI API key. Please check your API key and try again."]
         ELSE IF e.status = 429 \/ Includes(e.message, "rate limit")
         THEN [kind |-> "rateLimit", message |->
                 "OpenAI API rate limit exceeded. Please wait a moment and try again."]
         ELSE [kind |-> "transport", message |->
                 "OpenAI embeddings API error: " \o MessageOrUnknown(e.message)]
    [] provider = "google" ->
         IF Includes(e.message, "API_KEY_INVALID") \/ Includes(e.message, "401")
         THEN [kind |-> "auth", message |->
                 "Invalid Google API key. Please check your API key and try again."]
         ELSE IF Includes(e.message, "429") \/ Includes(e.message, "RESOURCE_EXHAUSTED")
         THEN [kind |-> "rateLimit", message |->
                 "Google API rate limit exceeded. Please wait a moment and try again."]
         ELSE [kind |-> "transport", message |->
                 "Google embeddings API error: " \o MessageOrUnknown(e.message)]
    [] OTHER -> AnthropicEmbeddingsError

(***************************************************************************)
(* The catch blocks of performSearch, getProductEmbeddings and             *)
(* createQueryEmbedding: an Error is replaced according to the words of    *)
(* its message, or rethrown.                                               *)
(***************************************************************************)
InvalidKeyError(provider) ==
  [kind |-> "auth", message |->
     "Invalid " \o provider \o " API key. Please check your API key and try again."]

RateLimitedError(provider) ==
  [kind |-> "rateLimit", message |->
     provider \o " API rate limit exceeded. Please wait a moment and try again."]

InvalidImageError ==
  [kind |-> "invalidImage", message |->
     "Invalid image format. Please upload a valid image file."]

\* searchService.ts 103-114
classificationCatch(provider, err) ==
  IF Includes(err.message, "Invalid") /\ Includes(err.message, "API key")
  THEN InvalidKeyError(provider)
  ELSE IF Includes(err.message, "rate limit") THEN RateLimitedError(provider)
  ELSE IF Includes(err.message, "image") THEN InvalidImageError
  ELSE err

\* searchService.ts 174-182
descriptionCatch(provider, err) ==
  IF Includes(err.message, "Invalid") /\ Includes(err.message, "API key")
  THEN InvalidKeyError(provider)
  ELSE IF Includes(err.message, "rate limit") THEN RateLimitedError(provider)
  ELSE err

\* searchService.ts 447-455 and 489-497
embeddingCatch(provider, err) ==
  IF Includes(err.message, "Invalid") /\ Includes(err.message, "API key")
  THEN InvalidKeyError(provider)
  ELSE IF Includes(err.message, "rate limit") THEN RateLimitedError(provider)
  ELSE err

(***************************************************************************)
(* Configuration (searchService.ts 10-66).  A config is a record whose     *)
(* domain is the set of keys that are present.                             *)
(***************************************************************************)
defaultConfig ==
  [maxCandidates |-> 200, topK |-> 20, minScore |-> 350,
   imageWeight |-> 500, textWeight |-> 300, priceProximityWeight |-> 200]

\* { ...defaultConfig, ...userConfig }
MergeConfig(d, u) ==
  [k \in DOMAIN d \cup DOMAIN u |-> IF k \in DOMAIN u THEN u[k] ELSE d[k]]

\* c[k] || dflt, for string-valued keys
StrOr(c, k, dflt) == IF k \in DOMAIN c /\ c[k] # "" THEN c[k] ELSE dflt

visionProviderOf(config) == StrOr(config, "aiProvider", "openai")

visionModelOf(config) ==
  StrOr(config, "aiModel",
        IF visionProviderOf(config) = "openai" THEN "gpt-4o"
        ELSE IF visionProviderOf(config) = "anthropic"
        THEN "claude-3-5-sonnet-20241022" ELSE "gemini-1.5-pro")

\* line 44: the embedding provider the caller selected
selectedEmbeddingProvider(config) ==
  StrOr(config, "embeddingProvider", visionProviderOf(config))

\* a variant without the substitution of lines 48-51
embeddingProviderAsSelected(config) == selectedEmbeddingProvider(config)

\* lines 44-51: the provider the embedding calls are sent to
embeddingProviderOf(config) ==
  IF selectedEmbeddingProvider(config) = "anthropic" THEN "openai"
  ELSE selectedEmbeddingProvider(config)

embeddingModelOf(config) ==
  StrOr(config, "embeddingModel",
        IF selectedEmbeddingProvider(config) = "openai" THEN "text-embedding-3-small"
        ELSE IF selectedEmbeddingProvider(config) = "google" THEN "text-embedding-004"
        ELSE "text-embedding-3-small")

\* lines 53-62; "" is "no key"
finalEmbeddingApiKeyOf(config, visionApiKey, embeddingApiKey) ==
  IF embeddingApiKey # "" THEN embeddingApiKey
  ELSE IF embeddingProviderOf(config) = visionProviderOf(config) THEN visionApiKey
  ELSE IF embeddingProviderOf(config) = "openai"
          /\ visionProviderOf(config) = "anthropic" THEN visionApiKey
  ELSE ""

MissingKeyError(config) ==
  [kind |-> "missingKey", message |->
     "Missing API key for embedding provider: " \o embeddingProviderOf(config)
       \o ". Please provide an embedding API key."]

(***************************************************************************)
(* Prompts and image analysis (searchService.ts 79-193).                   *)
(***************************************************************************)
analysisPrompt ==
  "Analyze this image and provide a structured analysis.\n\nFirst, determine if this is furniture (chairs, tables, sofas, desks, cabinets, shelves, beds, benches, stools, etc.).\n\nIf it IS furniture, respond in this EXACT format:\nFURNITURE\nCategory: [seating/tables/storage/beds/lighting/etc]\nType: [specific type like bench, chair, sofa, desk, table, cabinet, etc]\nDescription: [detailed description of materials, color, style, dimensions]\n\nIf it is NOT furniture, respond:\nNOT_FURNITURE: [brief reason]\n\nBe precise with category and type - these are critical for matching."

systemMessage ==
  "You are an expert furniture analyst. Describe furniture items with extreme precision for product matching. Focus on: exact category, specific type, materials, color, style, shape, dimensions, and usage context. Be very specific - distinguish between similar types (e.g., bench vs chair vs stool, sofa)."

userTextForVision(queryText) ==
  "Provide a detailed description of this furniture item for precise product matching. Include: category, exact type, materials, color, style, approximate dimensions, and any distinctive features."
    \o (IF queryText # ""
        THEN " Additional user requirements: \"" \o queryText \o "\"."
        ELSE "")

\* a variant that looks for the word anywhere in the content
mentionsFurniture(analysisContent) == Includes(analysisContent, "FURNITURE")

\* lines 116-117, on the trimmed content
isFurnitureContent(analysisContent) == StartsWith(analysisContent, "FURNITURE")

\* line 130
rejectionReasonOf(analysisContent) ==
  Trim(ReplaceFirst(analysisContent, "NOT_FURNITURE:", ""))

\* a variant that fills in a type when the content names none
parseAnalysisDefaultType(analysisContent) ==
  LET categoryMatch == MatchLineField(analysisContent, "Category:")
      typeMatch == MatchLineField(analysisContent, "Type:")
      descMatch == MatchRestField(analysisContent, "Description:")
  IN [isFurniture |-> TRUE,
      category |-> IF categoryMatch.found
                   THEN ToLowerCase(Trim(categoryMatch.value)) ELSE "",
      type |-> IF typeMatch.found
               THEN ToLowerCase(Trim(typeMatch.value)) ELSE "furniture",
      description |-> IF descMatch.found
                      THEN Trim(descMatch.value) ELSE analysisContent]

\* lines 137-154, on the trimmed content
parseAnalysis(analysisContent) ==
  LET categoryMatch == MatchLineField(analysisContent, "Category:")
      typeMatch == MatchLineField(analysisContent, "Type:")
      descMatch == MatchRestField(analysisContent, "Description:")
  IN [isFurniture |-> TRUE,
      category |-> IF categoryMatch.found
                   THEN ToLowerCase(Trim(categoryMatch.value)) ELSE "",
      type |-> IF typeMatch.found
               THEN ToLowerCase(Trim(typeMatch.value)) ELSE "",
      description |-> IF descMatch.found
                      THEN Trim(descMatch.value) ELSE analysisContent]

\* a variant that puts the caller's text first
composeQueryTextFirst(analysis, visionDescription, queryText) ==
  JoinWith(
    (IF queryText # "" THEN <<"user preferences: " \o queryText>> ELSE <<>>)
    \o (IF analysis.type # "" THEN <<"furniture type: " \o analysis.type>> ELSE <<>>)
    \o (IF analysis.category # "" THEN <<"category: " \o analysis.category>> ELSE <<>>)
    \o (IF visionDescription # "" THEN <<visionDescription>> ELSE <<>>),
    ". ")

\* lines 186-193
composeQuery(analysis, visionDescription, queryText) ==
  JoinWith(
    (IF analysis.type # "" THEN <<"furniture type: " \o analysis.type>> ELSE <<>>)
    \o (IF analysis.category # "" THEN <<"category: " \o analysis.category>> ELSE <<>>)
    \o (IF visionDescription # "" THEN <<visionDescription>> ELSE <<>>)
    \o (IF queryText # "" THEN <<"user preferences: " \o queryText>> ELSE <<>>),
    ". ")

(***************************************************************************)
(* Ranking (searchService.ts 212-368).                                     *)
(***************************************************************************)
\* line 316, in milli
typeCategoryWeight == 250

\* a variant whose type/category term is weighted by what the caller left
\* of the image weight
scoreProductSharedWeight(config, analysis, combinedQueryText, targetPrice, queryEmbedding, cacheMap, products, product) ==
  LET semanticScore ==
        IF product.id \in DOMAIN cacheMap
        THEN cosineSimilarity(queryEmbedding, cacheMap[product.id]) ELSE 0
      productText ==
        ToLowerCase(JoinWith(<<product.title, product.category, product.type,
                               product.description>>, " "))
      queryTextLower == ToLowerCase(combinedQueryText)
      typeMatch == typeMatchScore(analysis.type, product)
      categoryMatch == categoryMatchScore(analysis.category, product)
      lexicalScore == computeLexicalScore(queryTextLower, productText)
      price == priceScore(config, targetPrice, product, products)
      typeCategoryScore == (typeMatch * 600 + categoryMatch * 400) \div 1000
  IN [product |-> product,
      score |-> config.imageWeight * semanticScore
                  + ((1000 - config.imageWeight) \div 2) * typeCategoryScore
                  + config.textWeight * lexicalScore
                  + config.priceProximityWeight * price,
      explanation |->
        << [name |-> "typeMatch", value |-> typeMatch],
           [name |-> "categoryMatch", value |-> categoryMatch],
           [name |-> "semantic", value |-> semanticScore],
           [name |-> "lexical", value |-> lexicalScore] >>
        \o (IF config.priceProximityWeight > 0
            THEN << [name |-> "price", value |-> price] >> ELSE <<>>)]

\* a variant whose explanation leaves out the lexical sub-score when its
\* weight is 0
scoreProductTerseExplanation(config, analysis, combinedQueryText, targetPrice, queryEmbedding, cacheMap, products, product) ==
  LET semanticScore ==
        IF product.id \in DOMAIN cacheMap
        THEN cosineSimilarity(queryEmbedding, cacheMap[product.id]) ELSE 0
      productText ==
        ToLowerCase(JoinWith(<<product.title, product.category, product.type,
                               product.description>>, " "))
      queryTextLower == ToLowerCase(combinedQueryText)
      typeMatch == typeMatchScore(analysis.type, product)
      categoryMatch == categoryMatchScore(analysis.category, product)
      lexicalScore == computeLexicalScore(queryTextLower, productText)
      price == priceScore(config, targetPrice, product, products)
      typeCategoryScore == (typeMatch * 600 + categoryMatch * 400) \div 1000
  IN [product |-> product,
      score |-> config.imageWeight * semanticScore
                  + typeCategoryWeight * typeCategoryScore
                  + config.textWeight * lexicalScore
                  + config.priceProximityWeight * price,
      explanation |->
        << [name |-> "typeMatch", value |-> typeMatch],
           [name |-> "categoryMatch", value |-> categoryMatch],
           [name |-> "semantic", value |-> semanticScore] >>
        \o (IF config.textWeight > 0
            THEN << [name |-> "lexical", value |-> lexicalScore] >> ELSE <<>>)
        \o (IF config.priceProximityWeight > 0
            THEN << [name |-> "price", value |-> price] >> ELSE <<>>)]

\* one element of scored (lines 216-341); cacheMap is productEmbeddings,
\* which is the cache itself (line 472); score is in micro
scoreProduct(config, analysis, combinedQueryText, targetPrice, queryEmbedding, cacheMap, products, product) ==
  LET semanticScore ==
        IF product.id \in DOMAIN cacheMap
        THEN cosineSimilarity(queryEmbedding, cacheMap[product.id]) ELSE 0
      productText ==
        ToLowerCase(JoinWith(<<product.title, product.category, product.type,
                               product.description>>, " "))
      queryTextLower == ToLowerCase(combinedQueryText)
      typeMatch == typeMatchScore(analysis.type, product)
      categoryMatch == categoryMatchScore(analysis.category, product)
      lexicalScore == computeLexicalScore(queryTextLower, productText)
      price == priceScore(config, targetPrice, product, products)
      typeCategoryScore == (typeMatch * 600 + categoryMatch * 400) \div 1000
  IN [product |-> product,
      score |-> config.imageWeight * semanticScore
                  + typeCategoryWeight * typeCategoryScore
                  + config.textWeight * lexicalScore
                  + config.priceProximityWeight * price,
      explanation |->
        << [name |-> "typeMatch", value |-> typeMatch],
           [name |-> "categoryMatch", value |-> categoryMatch],
           [name |-> "semantic", value |-> semanticScore],
           [name |-> "lexical", value |-> lexicalScore] >>
        \o (IF config.priceProximityWeight > 0
            THEN << [name |-> "price", value |-> price] >> ELSE <<>>)]

\* a variant that puts the later of two equal scores first
sortByScoreTiesReversed(scored) ==
  LET n == Len(scored)
      score == SubSeq([i \in 1..n |-> scored[i].score], 1, n)
      place == SubSeq([i \in 1..n |->
                 1 + Cardinality({j \in 1..n :
                        \/ score[j] > score[i]
                        \/ score[j] = score[i] /\ j > i})], 1, n)
  IN [k \in 1..n |-> scored[CHOOSE i \in 1..n : place[i] = k]]

\* Array.prototype.sort((a, b) => b.score - a.score): stable, descending;
\* place[i] is where element i ends up
sortByScore(scored) ==
  LET n == Len(scored)
      score == SubSeq([i \in 1..n |-> scored[i].score], 1, n)
      place == SubSeq([i \in 1..n |->
                 1 + Cardinality({j \in 1..n :
                        \/ score[j] > score[i]
                        \/ score[j] = score[i] /\ j < i})], 1, n)
  IN [k \in 1..n |-> scored[CHOOSE i \in 1..n : place[i] = k]]

\* Array.prototype.slice(0, n) for n >= 0
Slice(seq, n) == SubSeq(seq, 1, MinOf(n, Len(seq)))

\* a variant without the cap
candidatesUncapped(products, config) == products

\* line 204
candidatesOf(products, config) == Slice(products, config.maxCandidates)

\* a variant without the minScore filter
sortWithoutFilter(scored, config) == sortByScore(scored)

\* lines 344-346; minScore is in milli, scores in micro
filterAndSort(scored, config) ==
  sortByScore(SelectSeq(scored, LAMBDA sp : sp.score >= config.minScore * 1000))

\* lines 198-202
priceRangeApplies(config) ==
  /\ "priceRangeEnabled" \in DOMAIN config
  /\ config.priceRangeEnabled
  /\ "priceRangeMin" \in DOMAIN config
  /\ "priceRangeMax" \in DOMAIN config

filterByPriceRange(catalog, config) ==
  IF priceRangeApplies(config)
  THEN SelectSeq(catalog, LAMBDA pr :
                   pr.price >= config.priceRangeMin /\ pr.price <= config.priceRangeMax)
  ELSE catalog

\* config.priceRangeEnabled as reported in debug; undefined is reported FALSE
priceFilteredFlag(config) ==
  "priceRangeEnabled" \in DOMAIN config /\ config.priceRangeEnabled

(***************************************************************************)
(* Embedding cache (searchService.ts 390-503).                             *)
(***************************************************************************)
\* line 416
BATCH_SIZE == 100

\* lines 421-430
embeddingTextOf(p) ==
  JoinWith(FilterNonEmpty(<<p.title, p.category, p.type, p.description>>), " | ")

\* a variant that does not consult the cache
missingIgnoringCache(products, cacheMap) == products

\* lines 409-411
missingProductsOf(products, cacheMap) ==
  SelectSeq(products, LAMBDA p : p.id \notin DOMAIN cacheMap)

\* line 419, i counted from 0
batchAt(missing, i) == SubSeq(missing, i + 1, MinOf(i + BATCH_SIZE, Len(missing)))

\* lines 433-440: the positions in the batch whose text is not blank
validIndicesOf(batch) ==
  LET keep == [idx \in 1..Len(batch) |->
                 Len(Trim(embeddingTextOf(batch[idx]))) > 0]
  IN SelectSeq([idx \in 1..Len(batch) |-> idx], LAMBDA idx : keep[idx])

validTextsOf(batch) ==
  LET vi == validIndicesOf(batch)
  IN [k \in 1..Len(vi) |-> embeddingTextOf(batch[vi[k]])]

\* a variant without the continue of line 442
nextBatchStartNoSkip(missing, i) == IF i >= Len(missing) THEN -1 ELSE i

\* the loop of lines 418-442 up to its next await: the offset of the next
\* batch that has a text to send, or -1 when the loop ends
RECURSIVE nextBatchStart(_, _)
nextBatchStart(missing, i) ==
  IF i >= Len(missing) THEN -1
  ELSE IF Len(validIndicesOf(batchAt(missing, i))) > 0 THEN i
  ELSE nextBatchStart(missing, i + BATCH_SIZE)

\* a variant that keeps only the entries of the latest response
storeEmbeddingsFresh(cacheMap, batch, embeddings) ==
  LET vi == validIndicesOf(batch)
      n == MinOf(Len(embeddings), Len(vi))
  IN [id \in {batch[vi[k]].id : k \in 1..n} |->
        embeddings[Max({k \in 1..n : batch[vi[k]].id = id})]]

\* a variant that writes response k under the id of the k-th item of the
\* batch
storeEmbeddingsByPosition(cacheMap, batch, embeddings) ==
  LET n == MinOf(Len(embeddings), Len(batch))
      ids == {batch[k].id : k \in 1..n}
  IN [id \in DOMAIN cacheMap \cup ids |->
        IF id \in ids
        THEN embeddings[Max({k \in 1..n : batch[k].id = id})]
        ELSE cacheMap[id]]

\* lines 458-468: the cache after the response to one batch is mapped back;
\* response k goes to the product at validIndices[k], a later set of the same
\* id replacing an earlier one
storeEmbeddings(cacheMap, batch, embeddings) ==
  LET vi == validIndicesOf(batch)
      n == MinOf(Len(embeddings), Len(vi))
      idAt == [k \in 1..n |-> batch[vi[k]].id]
      ids == {idAt[k] : k \in 1..n}
  IN [id \in DOMAIN cacheMap \cup ids |->
        IF id \in ids
        THEN embeddings[Max({k \in 1..n : idAt[k] = id})]
        ELSE cacheMap[id]]

\* the ids productEmbeddingCache.set is called with for one response
storedIdsOf(batch, embeddings) ==
  LET vi == validIndicesOf(batch)
  IN {batch[vi[k]].id : k \in 1..MinOf(Len(embeddings), Len(vi))}

(***************************************************************************)
(* The embedding service behind createEmbeddings: a deterministic function *)
(* of the model and the text.  A vector weighs wood words against          *)
(* upholstery words; the google model has one more dimension.              *)
(***************************************************************************)
upstreamEmbedding(model, text) ==
  LET lower == ToLowerCase(text)
      wood == (IF Includes(lower, "oak") THEN 1 ELSE 0)
                + (IF Includes(lower, "bench") THEN 1 ELSE 0)
      soft == (IF Includes(lower, "velvet") THEN 1 ELSE 0)
                + (IF Includes(lower, "sofa") THEN 1 ELSE 0)
  IN IF model = "text-embedding-004"
     THEN <<wood - soft, 1, Len(text) % 2>>
     ELSE <<wood - soft, 1>>

\* what the provider returns for the texts of one call: every embedding in
\* order ("full"), or one embedding too few ("short")
upstreamEmbeddings(model, texts, mode) ==
  [k \in 1..(IF mode = "full" THEN Len(texts) ELSE Len(texts) - 1) |->
     upstreamEmbedding(model, texts[k])]

(***************************************************************************)
(* State.                                                                  *)
(*   cache      productEmbeddingCache: product id -> embedding vector      *)
(*   req        one record per request slot: where performSearch and its   *)
(*              two embedding tasks stand, their locals, what they         *)
(*              returned or threw, and the calls they issued               *)
(*   served     the number of requests that have ended and left their slot *)
(*   completed  history: the id sets of the getProductEmbeddings calls     *)
(*              that ended normally with every batch answered in full      *)
(*   probe      a function of the pipeline applied on its own: its name,   *)
(*              its arguments and, once applied, its value                 *)
(***************************************************************************)
VARIABLES cache, req, served, completed, probe

vars == <<cache, req, served, completed, probe>>

Requests == 1..NumRequests

NoFailure == [raised |-> NoError, thrown |-> NoError]

IdleRequest ==
  [pc |-> "idle",             \* idle, classify, describe, fetch, embed, done
   outcome |-> "none",        \* none, rejected, results, error
   config |-> defaultConfig,
   visionApiKey |-> "",
   finalEmbeddingApiKey |-> "",
   queryText |-> "",
   analysisContent |-> "",
   analysis |-> [isFurniture |-> FALSE, category |-> "", type |-> "",
                 description |-> ""],
   visionDescription |-> "",
   combinedQueryText |-> "",
   products |-> <<>>,
   candidates |-> <<>>,
   qTask |-> "none",          \* createQueryEmbedding: none, pending, ok, failed
   queryEmbedding |-> <<>>,
   qFailure |-> NoFailure,
   iTask |-> "none",          \* getProductEmbeddings: none, pending, ok, failed
   missing |-> <<>>,
   batchStart |-> 0,
   iFailure |-> NoFailure,
   results |-> <<>>,
   debug |-> [isFurniture |-> FALSE],
   failure |-> NoFailure,     \* what performSearch threw, and what it caught
   calls |-> <<>>,            \* history: the calls issued, in order
   classified |-> FALSE,      \* history: the classification call returned
   cachedAtStart |-> {},      \* history: ids cached when the item task began
   written |-> {},            \* history: ids the item task wrote
   answeredInFull |-> TRUE,   \* history: every batch so far answered in full
   repeatOfCompleted |-> FALSE, \* history: item set of an earlier completed call
   fetchedCount |-> 0,        \* history: size of the catalog the store returned
   writtenAtQueryFailure |-> {} \* history: written when the query call failed
  ]

Call(op, stage, provider, apiKey, model, prompt, system, texts) ==
  [op |-> op, stage |-> stage, provider |-> provider, apiKey |-> apiKey,
   model |-> model, prompt |-> prompt, system |-> system, texts |-> texts]

IdsOf(products) == {products[i].id : i \in 1..Len(products)}

\* no function is being applied on its own
NoProbe == [fn |-> "none", applied |-> FALSE]

Init ==
  /\ cache = <<>>
  /\ req = [r \in Requests |-> IdleRequest]
  /\ served = 0
  /\ completed = {}
  /\ probe = NoProbe

(***************************************************************************)
(* performSearch, lines 37-102: configuration, key selection, and the      *)
(* classification call.  An input is [visionApiKey, embeddingApiKey,       *)
(* queryText, userConfig]; the image is passed through unread.             *)
(***************************************************************************)
\* a variant that appends the caller's text to the classification prompt
StartWithTextInPrompt(r, in) ==
  /\ req[r].pc = "idle"
  /\ LET config == MergeConfig(defaultConfig, in.userConfig)
         key == finalEmbeddingApiKeyOf(config, in.visionApiKey, in.embeddingApiKey)
     IN req' = [req EXCEPT ![r] =
          IF key = ""
          THEN [@ EXCEPT !.pc = "done", !.outcome = "error",
                         !.config = config,
                         !.visionApiKey = in.visionApiKey,
                         !.queryText = in.queryText,
                         !.failure = [raised |-> MissingKeyError(config),
                                      thrown |-> MissingKeyError(config)]]
          ELSE [@ EXCEPT !.pc = "classify",
                         !.config = config,
                         !.visionApiKey = in.visionApiKey,
                         !.finalEmbeddingApiKey = key,
                         !.queryText = in.queryText,
                         !.calls = Append(@,
                            Call("analyzeImage", "classification",
                                 visionProviderOf(config), in.visionApiKey,
                                 visionModelOf(config),
                                 analysisPrompt \o " " \o in.queryText,
                                 "", <<>>))]]
  /\ UNCHANGED <<cache, served, completed, probe>>

Start(r, in) ==
  /\ req[r].pc = "idle"
  /\ LET config == MergeConfig(defaultConfig, in.userConfig)
         key == finalEmbeddingApiKeyOf(config, in.visionApiKey, in.embeddingApiKey)
     IN req' = [req EXCEPT ![r] =
          IF key = ""
          THEN [@ EXCEPT !.pc = "done", !.outcome = "error",
                         !.config = config,
                         !.visionApiKey = in.visionApiKey,
                         !.queryText = in.queryText,
                         !.failure = [raised |-> MissingKeyError(config),
                                      thrown |-> MissingKeyError(config)]]
          ELSE [@ EXCEPT !.pc = "classify",
                         !.config = config,
                         !.visionApiKey = in.visionApiKey,
                         !.finalEmbeddingApiKey = key,
                         !.queryText = in.queryText,
                         !.calls = Append(@,
                            Call("analyzeImage", "classification",
                                 visionProviderOf(config), in.visionApiKey,
                                 visionModelOf(config), analysisPrompt, "", <<>>))]]
  /\ UNCHANGED <<cache, served, completed, probe>>

\* a variant that issues the classification call once more after a failure
ClassifyFailRetry(r, e) ==
  /\ req[r].pc = "classify"
  /\ LET provider == visionProviderOf(req[r].config)
         raised == analyzeImageError(provider, e)
     IN req' = [req EXCEPT ![r] =
          IF Len(@.calls) < 2
          THEN [@ EXCEPT !.calls = Append(@, req[r].calls[1])]
          ELSE [@ EXCEPT !.pc = "done", !.outcome = "error",
                         !.failure = [raised |-> raised,
                                      thrown |-> classificationCatch(provider, raised)]]]
  /\ UNCHANGED <<cache, served, completed, probe>>

\* lines 103-114: the classification call failed upstream with e
ClassifyFail(r, e) ==
  /\ req[r].pc = "classify"
  /\ LET provider == visionProviderOf(req[r].config)
         raised == analyzeImageError(provider, e)
     IN req' = [req EXCEPT ![r] =
          [@ EXCEPT !.pc = "done", !.outcome = "error",
                    !.failure = [raised |-> raised,
                                 thrown |-> classificationCatch(provider, raised)]]]
  /\ UNCHANGED <<cache, served, completed, probe>>

\* lines 116-173: the classification call returned content
ClassifyReturn(r, content) ==
  /\ req[r].pc = "classify"
  /\ LET analysisContent == Trim(content)
         config == req[r].config
     IN req' = [req EXCEPT ![r] =
          IF ~isFurnitureContent(analysisContent)
          THEN [@ EXCEPT !.pc = "done", !.outcome = "rejected",
                         !.classified = TRUE,
                         !.analysisContent = analysisContent,
                         !.results = <<>>,
                         !.debug = [visionDescription |-> analysisContent,
                                    combinedQueryText |-> analysisContent,
                                    totalProducts |-> 0,
                                    considered |-> 0,
                                    priceFiltered |-> priceFilteredFlag(config),
                                    isFurniture |-> FALSE,
                                    rejectionReason |->
                                      rejectionReasonOf(analysisContent)]]
          ELSE [@ EXCEPT !.pc = "describe",
                         !.classified = TRUE,
                         !.analysisContent = analysisContent,
                         !.analysis = parseAnalysis(analysisContent),
                         !.calls = Append(@,
                            Call("analyzeImage", "description",
                                 visionProviderOf(config), req[r].visionApiKey,
                                 visionModelOf(config),
                                 userTextForVision(req[r].queryText),
                                 systemMessage, <<>>))]]
  /\ UNCHANGED <<cache, served, completed, probe>>

\* lines 174-182: the description call failed upstream with e
DescribeFail(r, e) ==
  /\ req[r].pc = "describe"
  /\ LET provider == visionProviderOf(req[r].config)
         raised == analyzeImageError(provider, e)
     IN req' = [req EXCEPT ![r] =
          [@ EXCEPT !.pc = "done", !.outcome = "error",
                    !.failure = [raised |-> raised,
                                 thrown |-> descriptionCatch(provider, raised)]]]
  /\ UNCHANGED <<cache, served, completed, probe>>

\* lines 184-195: the description call returned content
DescribeReturn(r, content) ==
  /\ req[r].pc = "describe"
  /\ req' = [req EXCEPT ![r] =
       [@ EXCEPT !.pc = "fetch",
                 !.visionDescription = content,
                 !.combinedQueryText =
                    composeQuery(req[r].analysis, content, req[r].queryText),
                 !.calls = Append(@,
                    Call("fetchAllProducts", "catalog", "", "", "", "", "", <<>>))]]
  /\ UNCHANGED <<cache, served, completed, probe>>

StoreError == [kind |-> "store", message |-> "MongoDB error"]

\* line 195: fetchAllProducts rejected (mongoClient.ts 17-36)
FetchFail(r) ==
  /\ req[r].pc = "fetch"
  /\ req' = [req EXCEPT ![r] =
       [@ EXCEPT !.pc = "done", !.outcome = "error",
                 !.failure = [raised |-> StoreError, thrown |-> StoreError]]]
  /\ UNCHANGED <<cache, served, completed, probe>>

\* what a task that called createEmbeddings on a client without embedding
\* support caught and threw
UnsupportedFailure(provider) ==
  [raised |-> AnthropicEmbeddingsError,
   thrown |-> embeddingCatch(provider, AnthropicEmbeddingsError)]

(***************************************************************************)
(* performSearch, lines 195-210: the catalog arrived; price-range filter,  *)
(* candidate cap, and the start of createQueryEmbedding (475-488) and of   *)
(* getProductEmbeddings (397-446), each running to its first await.        *)
(***************************************************************************)
FetchReturn(r, catalog) ==
  /\ req[r].pc = "fetch"
  /\ LET rq == req[r]
         config == rq.config
         products == filterByPriceRange(catalog, config)
         candidates == candidatesOf(products, config)
         provider == embeddingProviderOf(config)
         model == embeddingModelOf(config)
         supported == SupportsEmbeddings(provider)
         missing == missingProductsOf(candidates, cache)
         first == nextBatchStart(missing, 0)
         queryCall == Call("createEmbeddings", "query", provider,
                           rq.finalEmbeddingApiKey, model, "", "",
                           <<rq.combinedQueryText>>)
         itemsCall == Call("createEmbeddings", "items", provider,
                           rq.finalEmbeddingApiKey, model, "", "",
                           validTextsOf(batchAt(missing, first)))
     IN /\ req' = [req EXCEPT ![r] =
             [@ EXCEPT
                !.products = products,
                !.fetchedCount = Len(catalog),
                !.candidates = candidates,
                !.missing = missing,
                !.batchStart = IF first >= 0 THEN first ELSE 0,
                !.cachedAtStart = DOMAIN cache,
                !.repeatOfCompleted = IdsOf(candidates) \in completed,
                !.calls = @ \o <<queryCall>>
                            \o (IF first >= 0 THEN <<itemsCall>> ELSE <<>>),
                !.qTask = IF supported THEN "pending" ELSE "failed",
                !.qFailure = IF supported THEN NoFailure
                             ELSE UnsupportedFailure(provider),
                !.iTask = IF first < 0 THEN "ok"
                          ELSE IF supported THEN "pending" ELSE "failed",
                !.iFailure = IF first < 0 \/ supported THEN NoFailure
                             ELSE UnsupportedFailure(provider),
                !.pc = IF supported THEN "embed" ELSE "done",
                !.outcome = IF supported THEN "none" ELSE "error",
                !.failure = IF supported THEN NoFailure
                            ELSE UnsupportedFailure(provider)]]
        /\ completed' = IF first < 0 THEN completed \cup {IdsOf(candidates)}
                        ELSE completed
  /\ UNCHANGED <<cache, served, probe>>

\* createQueryEmbedding, lines 498-502: the call returned
QueryEmbeddingReturn(r, mode) ==
  /\ req[r].qTask = "pending"
  /\ LET embeddings == upstreamEmbeddings(embeddingModelOf(req[r].config),
                                          <<req[r].combinedQueryText>>, mode)
     IN req' = [req EXCEPT ![r] =
          [@ EXCEPT !.qTask = "ok",
                    !.queryEmbedding = IF Len(embeddings) = 0 THEN <<>>
                                       ELSE embeddings[1]]]
  /\ UNCHANGED <<cache, served, completed, probe>>

\* a variant in which the failure of the query call also ends the item task
QueryEmbeddingFailCancels(r, e) ==
  /\ req[r].qTask = "pending"
  /\ LET provider == embeddingProviderOf(req[r].config)
         raised == createEmbeddingsError(provider, e)
         f == [raised |-> raised, thrown |-> embeddingCatch(provider, raised)]
     IN req' = [req EXCEPT ![r] =
          [@ EXCEPT !.qTask = "failed",
                    !.qFailure = f,
                    !.iTask = IF @ = "pending" THEN "failed" ELSE @,
                    !.pc = "done",
                    !.outcome = IF @ = "none" THEN "error" ELSE @,
                    !.failure = IF req[r].outcome = "none" THEN f ELSE @,
                    !.writtenAtQueryFailure = req[r].written]]
  /\ UNCHANGED <<cache, served, completed, probe>>

\* createQueryEmbedding, lines 489-497: the call failed upstream with e;
\* Promise.all (line 207) rejects with the first rejection
QueryEmbeddingFail(r, e) ==
  /\ req[r].qTask = "pending"
  /\ LET provider == embeddingProviderOf(req[r].config)
         raised == createEmbeddingsError(provider, e)
         f == [raised |-> raised, thrown |-> embeddingCatch(provider, raised)]
     IN req' = [req EXCEPT ![r] =
          [@ EXCEPT !.qTask = "failed",
                    !.qFailure = f,
                    !.pc = "done",
                    !.outcome = IF @ = "none" THEN "error" ELSE @,
                    !.failure = IF req[r].outcome = "none" THEN f ELSE @,
                    !.writtenAtQueryFailure = req[r].written]]
  /\ UNCHANGED <<cache, served, completed, probe>>

\* getProductEmbeddings, lines 457-469 and the loop's next turn (418-446):
\* the call for the current batch returned
ItemBatchReturn(r, mode) ==
  /\ req[r].iTask = "pending"
  /\ LET rq == req[r]
         config == rq.config
         model == embeddingModelOf(config)
         batch == batchAt(rq.missing, rq.batchStart)
         embeddings == upstreamEmbeddings(model, validTextsOf(batch), mode)
         stored == storeEmbeddings(cache, batch, embeddings)
         next == nextBatchStart(rq.missing, rq.batchStart + BATCH_SIZE)
         full == rq.answeredInFull /\ mode = "full"
         itemsCall == Call("createEmbeddings", "items",
                           embeddingProviderOf(config), rq.finalEmbeddingApiKey,
                           model, "", "",
                           validTextsOf(batchAt(rq.missing, next)))
     IN /\ cache' = stored
        /\ req' = [req EXCEPT ![r] =
             [@ EXCEPT
                !.written = @ \cup storedIdsOf(batch, embeddings),
                !.answeredInFull = full,
                !.iTask = IF next < 0 THEN "ok" ELSE "pending",
                !.batchStart = IF next < 0 THEN @ ELSE next,
                !.calls = IF next < 0 THEN @ ELSE Append(@, itemsCall)]]
        /\ completed' = IF next < 0 /\ full
                        THEN completed \cup {IdsOf(rq.candidates)}
                        ELSE completed
  /\ UNCHANGED <<served, probe>>

\* a variant that on failure removes what the call had written
ItemBatchFailRollback(r, e) ==
  /\ req[r].iTask = "pending"
  /\ LET provider == embeddingProviderOf(req[r].config)
         raised == createEmbeddingsError(provider, e)
         f == [raised |-> raised, thrown |-> embeddingCatch(provider, raised)]
     IN req' = [req EXCEPT ![r] =
          [@ EXCEPT !.iTask = "failed",
                    !.iFailure = f,
                    !.pc = "done",
                    !.outcome = IF @ = "none" THEN "error" ELSE @,
                    !.failure = IF req[r].outcome = "none" THEN f ELSE @]]
  /\ cache' = [id \in DOMAIN cache \ req[r].written |-> cache[id]]
  /\ UNCHANGED <<served, completed, probe>>

\* getProductEmbeddings, lines 447-455: the call for the current batch
\* failed upstream with e
ItemBatchFail(r, e) ==
  /\ req[r].iTask = "pending"
  /\ LET provider == embeddingProviderOf(req[r].config)
         raised == createEmbeddingsError(provider, e)
         f == [raised |-> raised, thrown |-> embeddingCatch(provider, raised)]
     IN req' = [req EXCEPT ![r] =
          [@ EXCEPT !.iTask = "failed",
                    !.iFailure = f,
                    !.pc = "done",
                    !.outcome = IF @ = "none" THEN "error" ELSE @,
                    !.failure = IF req[r].outcome = "none" THEN f ELSE @]]
  /\ UNCHANGED <<cache, served, completed, probe>>

\* lines 216-341: scored
scoredOf(rq, cacheMap) ==
  SubSeq([i \in 1..Len(rq.candidates) |->
            scoreProduct(rq.config, rq.analysis, rq.combinedQueryText,
                         ExtractTargetPrice(rq.queryText), rq.queryEmbedding,
                         cacheMap, rq.products, rq.candidates[i])],
         1, Len(rq.candidates))

\* lines 216-341: candidates.map throws on the first candidate whose
\* typeMatchScore does
scoringThrows(rq) ==
  \E i \in 1..Len(rq.candidates) :
    typeMatchThrows(rq.analysis.type, rq.candidates[i])

\* what performSearch then rejects with; nothing in it catches the error
ScoringError ==
  [kind |-> "typeError", message |-> "similar.some is not a function"]

\* lines 343-350: finalResults
finalResultsOf(rq, cacheMap) ==
  Slice(filterAndSort(scoredOf(rq, cacheMap), rq.config), rq.config.topK)

\* lines 353-368: the request after performSearch returned finalResults
responseOf(rq, finalResults) ==
  [rq EXCEPT !.pc = "done", !.outcome = "results",
             !.results = finalResults,
             !.debug = [visionDescription |-> rq.visionDescription,
                        analysis |-> rq.analysis,
                        combinedQueryText |-> rq.combinedQueryText,
                        totalProducts |-> Len(rq.products),
                        considered |-> Len(rq.candidates),
                        priceFiltered |-> priceFilteredFlag(rq.config),
                        isFurniture |-> TRUE,
                        topScore |-> IF Len(finalResults) > 0
                                     THEN finalResults[1].score ELSE 0,
                        resultsCount |-> Len(finalResults)]]

\* a variant that scores as soon as the query embedding is there
FinishAfterQuery(r) ==
  /\ req[r].pc = "embed"
  /\ req[r].qTask = "ok"
  /\ req' = [req EXCEPT ![r] =
       IF scoringThrows(@)
       THEN [@ EXCEPT !.pc = "done", !.outcome = "error",
                      !.failure = [raised |-> ScoringError,
                                   thrown |-> ScoringError]]
       ELSE responseOf(@, finalResultsOf(@, cache))]
  /\ UNCHANGED <<cache, served, completed, probe>>

\* a variant that throws when nothing passes the filter
FinishOrNoMatch(r) ==
  /\ req[r].pc = "embed"
  /\ req[r].qTask = "ok"
  /\ req[r].iTask = "ok"
  /\ req' = [req EXCEPT ![r] =
       IF scoringThrows(@)
       THEN [@ EXCEPT !.pc = "done", !.outcome = "error",
                      !.failure = [raised |-> ScoringError,
                                   thrown |-> ScoringError]]
       ELSE IF finalResultsOf(@, cache) = <<>>
       THEN [@ EXCEPT !.pc = "done", !.outcome = "error",
                      !.failure =
                         [raised |-> [kind |-> "noMatch",
                                      message |-> "No matching products found"],
                          thrown |-> [kind |-> "noMatch",
                                      message |-> "No matching products found"]]]
       ELSE responseOf(@, finalResultsOf(@, cache))]
  /\ UNCHANGED <<cache, served, completed, probe>>

(***************************************************************************)
(* performSearch, lines 212-368: both embedding tasks have resolved;       *)
(* scoring, filter, sort, truncation and the response.                     *)
(***************************************************************************)
Finish(r) ==
  /\ req[r].pc = "embed"
  /\ req[r].qTask = "ok"
  /\ req[r].iTask = "ok"
  /\ req' = [req EXCEPT ![r] =
       IF scoringThrows(@)
       THEN [@ EXCEPT !.pc = "done", !.outcome = "error",
                      !.failure = [raised |-> ScoringError,
                                   thrown |-> ScoringError]]
       ELSE responseOf(@, finalResultsOf(@, cache))]
  /\ UNCHANGED <<cache, served, completed, probe>>

\* the request has ended and its embedding tasks have settled: the slot is
\* free for the next request of the process
Recycle(r) ==
  /\ req[r].pc = "done"
  /\ req[r].qTask # "pending"
  /\ req[r].iTask # "pending"
  /\ served < MaxServed
  /\ served' = served + 1
  /\ req' = [req EXCEPT ![r] = IdleRequest]
  /\ UNCHANGED <<cache, completed, probe>>

(***************************************************************************)
(* The environment: what callers send, what the vision and embedding       *)
(* services answer, what the store holds.                                  *)
(***************************************************************************)
Product(id, title, category, type, description, price) ==
  [id |-> id, title |-> title, category |-> category, type |-> type,
   description |-> description, price |-> price]

pBench == Product("p1", "Oak Bench", "Seating", "bench", "Solid oak bench", 120)
pStool == Product("p2", "Bar Stool", "Seating", "stool", "Metal bar stool", 60)
pSofa == Product("p3", "Velvet Sofa", "Living room", "sofa", "Soft velvet couch", 900)
pBlank == Product("p4", "", "", "", "", 10)

SmallCatalogs == { <<pBench, pStool, pSofa>>, <<pBlank, pSofa, pBench>>, <<>> }

\* a store of LargeCatalogSize products: the first and those of the second
\* hundred have no text, the last is the best match for an oak bench, the
\* others are side tables
LargeCatalogSize == 250

LargeCatalog ==
  [i \in 1..LargeCatalogSize |->
     IF i = 1 \/ (i > BATCH_SIZE /\ i <= 2 * BATCH_SIZE)
     THEN Product("n" \o ToString(i), "", "", "", "", 40)
     ELSE IF i = LargeCatalogSize
     THEN Product("n" \o ToString(i), "Oak Bench", "Seating", "bench",
                  "Solid oak bench", 120)
     ELSE Product("n" \o ToString(i), "Side Table " \o ToString(i), "Tables",
                  "table", "Small metal table", 50)]

ClassificationFurniture ==
  "FURNITURE\nCategory: Seating\nType: Bench\nDescription: A wooden oak bench"

ClassificationRejected == "NOT_FURNITURE: a cat on a lawn"

\* a type that is the name of a property every object inherits
ClassificationInherited ==
  "FURNITURE\nCategory: Seating\nType: Constructor\nDescription: A wooden oak bench"

ClassificationContents ==
  { ClassificationFurniture, "FURNITURE", ClassificationInherited,
    ClassificationRejected, "NOT_FURNITURE:", "" }

DescriptionOak == "A wooden oak bench with slats"

DescriptionContents == { DescriptionOak, "" }

QueryTexts == { "", "oak under $100" }

ErrUnauthorized == [status |-> 401, message |-> "Incorrect API key provided"]
ErrThrottled == [status |-> 429, message |-> "Too many requests"]
ErrSocket == [status |-> 500, message |-> "socket hang up"]
ErrImage == [status |-> 400, message |-> "Could not process image"]
ErrOverloaded == [status |-> 503, message |-> "Overloaded, rate limit reached"]

UpstreamErrors ==
  { ErrUnauthorized, ErrThrottled, ErrSocket, ErrImage, ErrOverloaded }

ResponseModes == { "full", "short" }

ProviderParts ==
  { [aiProvider |-> "openai"],
    [aiProvider |-> "anthropic"],
    [aiProvider |-> "google"],
    [aiProvider |-> "google", embeddingProvider |-> "openai"],
    [aiProvider |-> "openai", embeddingProvider |-> "anthropic"],
    [aiProvider |-> "anthropic", embeddingModel |-> "text-embedding-3-large"] }

RankingParts ==
  { [minScore |-> 350],
    [maxCandidates |-> 10, topK |-> 1, minScore |-> 0],
    [topK |-> 2, minScore |-> 500],
    [imageWeight |-> 1000, textWeight |-> 0, priceProximityWeight |-> 0,
     minScore |-> 400] }

PriceRangeParts ==
  { [priceRangeEnabled |-> FALSE],
    [priceRangeEnabled |-> TRUE],
    [priceRangeEnabled |-> TRUE, priceRangeMin |-> 50, priceRangeMax |-> 500] }

Input(visionApiKey, embeddingApiKey, queryText, userConfig) ==
  [visionApiKey |-> visionApiKey, embeddingApiKey |-> embeddingApiKey,
   queryText |-> queryText, userConfig |-> userConfig]

\* what the route (routes/search.ts) hands to performSearch: the vision key
\* of the provider's header, and the embedding key of the embedding header
\* or, without one, a copy of another key; a config the schema accepts.
\* Every provider choice with either embedding key, and for openai every
\* ranking and price-range choice with and without a query text.
Inputs ==
  { Input("vision-key",
          IF ek # "" THEN ek
          ELSE IF visionProviderOf(a) = "anthropic" THEN "openai-key"
          ELSE "vision-key",
          "oak under $100", a) :
      ek \in {"", "embedding-key"}, a \in ProviderParts }
  \cup
  { Input("vision-key", "vision-key", q,
          MergeConfig(MergeConfig([aiProvider |-> "openai"], b), c)) :
      q \in QueryTexts, b \in RankingParts, c \in PriceRangeParts }

\* everything one request can meet
Universe ==
  [inputs |-> Inputs,
   classifications |-> ClassificationContents,
   descriptions |-> DescriptionContents,
   errors |-> UpstreamErrors,
   catalogs |-> SmallCatalogs,
   modes |-> ResponseModes]

\* requests over the large store, one after the other
BatchUniverse ==
  [inputs |-> { Input("vision-key", "vision-key", "", [minScore |-> 0]),
                Input("vision-key", "vision-key", "",
                      [maxCandidates |-> 2 * BATCH_SIZE + 1]) },
   classifications |-> { ClassificationFurniture, ClassificationRejected },
   descriptions |-> { DescriptionOak },
   errors |-> { ErrSocket },
   catalogs |-> { LargeCatalog },
   modes |-> ResponseModes]

\* requests that overlap, with different embedding models and candidate sets
ConcurrentUniverse ==
  [inputs |-> { Input("vision-key", "vision-key", "", [aiProvider |-> "openai"]),
                Input("vision-key", "vision-key", "",
                      [aiProvider |-> "google", priceRangeEnabled |-> TRUE,
                       priceRangeMin |-> 50, priceRangeMax |-> 500]) },
   classifications |-> { ClassificationFurniture, ClassificationRejected },
   descriptions |-> { DescriptionOak },
   errors |-> { ErrThrottled },
   catalogs |-> { <<pBench, pStool, pSofa>> },
   modes |-> { "full" }]

\* requests that overlap and differ only in the caller's free text
PairUniverse ==
  [inputs |-> { Input("vision-key", "vision-key", q, [aiProvider |-> "openai"]) :
                  q \in QueryTexts },
   classifications |-> { ClassificationFurniture, ClassificationRejected },
   descriptions |-> { DescriptionOak },
   errors |-> { ErrThrottled },
   catalogs |-> { <<pBench>> },
   modes |-> { "full" }]

\* the steps of request r in an environment U
Step(r, U) ==
  \/ \E in \in U.inputs : Start(r, in)
  \/ \E content \in U.classifications : ClassifyReturn(r, content)
  \/ \E e \in U.errors : ClassifyFail(r, e)
  \/ \E content \in U.descriptions : DescribeReturn(r, content)
  \/ \E e \in U.errors : DescribeFail(r, e)
  \/ \E catalog \in U.catalogs : FetchReturn(r, catalog)
  \/ FetchFail(r)
  \/ \E mode \in U.modes : QueryEmbeddingReturn(r, mode)
  \/ \E e \in U.errors : QueryEmbeddingFail(r, e)
  \/ \E mode \in U.modes : ItemBatchReturn(r, mode)
  \/ \E e \in U.errors : ItemBatchFail(r, e)
  \/ Finish(r)

(***************************************************************************)
(* Spec: one request, met by everything in Universe.                       *)
(***************************************************************************)
Next == Step(1, Universe)

Spec == Init /\ [][Next]_vars

(***************************************************************************)
(* SpecBatch: requests over the large store, served one after the other.   *)
(***************************************************************************)
NextBatch == Step(1, BatchUniverse) \/ Recycle(1)

SpecBatch == Init /\ [][NextBatch]_vars

(***************************************************************************)
(* SpecConcurrent: NumRequests requests in flight at once.                 *)
(***************************************************************************)
NextConcurrent == \E r \in Requests : Step(r, ConcurrentUniverse)

SpecConcurrent == Init /\ [][NextConcurrent]_vars

(***************************************************************************)
(* Requests side by side that differ only in queryText.                    *)
(***************************************************************************)
NextPair == \E r \in Requests : Step(r, PairUniverse)

SpecPair == Init /\ [][NextPair]_vars

(***************************************************************************)
(* typeMatchScore and cosineSimilarity applied on their own, to arguments  *)
(* drawn from bounded sets.                                                *)
(***************************************************************************)
TypeProbes ==
  { [fn |-> "typeMatchScore", applied |-> FALSE, analysisType |-> t,
     product |-> p, threw |-> FALSE, value |-> 0] :
      t \in { "", "bench", "benches", "stool", "stools", "oak", "couch",
              "chair", "wardrobe", "constructor", "constructors",
              "__proto__" },
      p \in { pBench, pStool, pSofa, pBlank } }

\* classification contents that start with the furniture marker: fields in
\* order, a field left blank, a prefix inside a longer word, fields in one
\* line, upper case, no field at all
ParseProbes ==
  { [fn |-> "parseAnalysis", applied |-> FALSE, content |-> c,
     analysis |-> IdleRequest.analysis] :
      c \in { ClassificationFurniture,
              "FURNITURE",
              "FURNITURE\nCategory:\nType: Bench\nDescription: oak",
              "FURNITURE\nSubcategory: Chairs\nCategory: Seating\nType: Stool",
              "FURNITURE\nCategory: Seating Type: Bench",
              "FURNITURE\nCATEGORY:   Tables  \ntype: Desk\nType: Table",
              "FURNITURE\nType:",
              "FURNITURE\nDescription: Category: Beds" } }

\* queries and texts with inner punctuation, capitals, digits, repeated
\* words, and without any token
LexicalProbes ==
  { [fn |-> "computeLexicalScore", applied |-> FALSE, query |-> q,
     text |-> t, value |-> 0] :
      q \in { "", "arm-chair", "armchair", "oak, oak bench!", "Sofa under $100" },
      t \in { "", "--", "Arm chair", "armchair oak", "oak-bench 100",
              "Velvet SOFA | seating" } }

MaxProbeBatch == 3

\* batches of distinct products, with and without text, in every order,
\* and the response of the openai model to their texts, whole or one short
StoreProbes ==
  LET pool == { pBench, pStool, pSofa, pBlank, Product("p5", "", "", "", "", 20) }
      batches == { b \in UNION { [1..n -> pool] : n \in 0..MaxProbeBatch } :
                     \A i, j \in 1..Len(b) : i # j => b[i] # b[j] }
  IN { [fn |-> "storeEmbeddings", applied |-> FALSE, batch |-> b,
        embeddings |-> upstreamEmbeddings("text-embedding-3-small",
                                          validTextsOf(b), mode),
        stored |-> <<>>] :
         b \in batches, mode \in ResponseModes }

MaxVectorLen == 2

Vectors == UNION { [1..n -> { -1, 0, 2 }] : n \in 0..MaxVectorLen }

CosineProbes ==
  { [fn |-> "cosineSimilarity", applied |-> FALSE, a |-> a, b |-> b,
     value |-> 0] : a \in Vectors, b \in Vectors }

InitPure ==
  /\ cache = <<>>
  /\ req = [r \in Requests |-> IdleRequest]
  /\ served = 0
  /\ completed = {}
  /\ probe \in TypeProbes \cup CosineProbes \cup ParseProbes \cup LexicalProbes
                \cup StoreProbes

ApplyTypeMatch ==
  /\ probe.fn = "typeMatchScore"
  /\ ~probe.applied
  /\ probe' =
       IF typeMatchThrows(probe.analysisType, probe.product)
       THEN [probe EXCEPT !.applied = TRUE, !.threw = TRUE]
       ELSE [probe EXCEPT !.applied = TRUE,
                          !.value = typeMatchScore(probe.analysisType,
                                                   probe.product)]
  /\ UNCHANGED <<cache, req, served, completed>>

ApplyCosine ==
  /\ probe.fn = "cosineSimilarity"
  /\ ~probe.applied
  /\ probe' = [probe EXCEPT !.applied = TRUE,
                            !.value = cosineSimilarity(probe.a, probe.b)]
  /\ UNCHANGED <<cache, req, served, completed>>

ApplyParse ==
  /\ probe.fn = "parseAnalysis"
  /\ ~probe.applied
  /\ probe' = [probe EXCEPT !.applied = TRUE,
                            !.analysis = parseAnalysis(probe.content)]
  /\ UNCHANGED <<cache, req, served, completed>>

ApplyLexical ==
  /\ probe.fn = "computeLexicalScore"
  /\ ~probe.applied
  /\ probe' = [probe EXCEPT !.applied = TRUE,
                            !.value = computeLexicalScore(probe.query, probe.text)]
  /\ UNCHANGED <<cache, req, served, completed>>

ApplyStore ==
  /\ probe.fn = "storeEmbeddings"
  /\ ~probe.applied
  /\ probe' = [probe EXCEPT !.applied = TRUE,
                            !.stored = storeEmbeddings(<<>>, probe.batch,
                                                       probe.embeddings)]
  /\ UNCHANGED <<cache, req, served, completed>>

NextPure ==
  ApplyTypeMatch \/ ApplyCosine \/ ApplyParse \/ ApplyLexical \/ ApplyStore

SpecPure == InitPure /\ [][NextPure]_vars

(***************************************************************************)
(* Properties.                                                             *)
(***************************************************************************)
\* the calls request r issued with operation op
CallsOf(r, op) == SelectSeq(req[r].calls, LAMBDA c : c.op = op)

\* the createEmbeddings calls the item task of request r issued
ItemCalls(r) ==
  SelectSeq(req[r].calls, LAMBDA c : c.op = "createEmbeddings" /\ c.stage = "items")

HasText(p) == Len(Trim(embeddingTextOf(p))) > 0

CeilDiv(n, d) == (n + d - 1) \div d

\* the classification call of request r returned content that does not
\* start with FURNITURE
ClassifiedNonFurniture(r) ==
  req[r].classified /\ ~StartsWith(req[r].analysisContent, "FURNITURE")

\* the catalog of request r arrived
Fetched(r) == req[r].qTask # "none"

\* C1: a request whose classification response is non-furniture ends with an
\* empty result list, having issued exactly one analyzeImage call and no
\* description call, no catalog fetch and no createEmbeddings call.
C1_RejectionIssuesOneCall ==
  \A r \in Requests :
    ClassifiedNonFurniture(r) =>
      /\ req[r].pc = "done"
      /\ req[r].outcome = "rejected"
      /\ req[r].results = <<>>
      /\ Len(req[r].calls) = 1
      /\ req[r].calls[1].op = "analyzeImage"
      /\ req[r].calls[1].stage = "classification"
      /\ CallsOf(r, "createEmbeddings") = <<>>
      /\ CallsOf(r, "fetchAllProducts") = <<>>
      /\ req[r].qTask = "none" /\ req[r].iTask = "none"

C1_Witness ==
  /\ ClassifiedNonFurniture(1)
  /\ req[1].outcome = "rejected"
  /\ req[1].debug.rejectionReason = "a cat on a lawn"
  /\ Len(req[1].calls) = 1

\* C2: the list performSearch returns has at most topK entries, and every
\* entry has a composite score of at least minScore.
C2_ResultsWithinTopKAndMinScore ==
  \A r \in Requests :
    req[r].outcome \in {"results", "rejected"} =>
      /\ Len(req[r].results) <= req[r].config.topK
      /\ \A i \in 1..Len(req[r].results) :
           req[r].results[i].score >= req[r].config.minScore * 1000

\* two candidates pass the filter of a positive minScore, a third does not
C2_Witness ==
  /\ req[1].outcome = "results"
  /\ req[1].config.minScore > 0
  /\ Len(req[1].candidates) = 3
  /\ Len(req[1].results) = 2

\* C3: the candidates are the first min(maxCandidates, size) items of the
\* price-filtered catalog in store order, exactly that many are scored, and
\* no item at a later position is in the results.
C3_CandidatesArePrefix ==
  \A r \in Requests :
    Fetched(r) =>
      LET n == MinOf(req[r].config.maxCandidates, Len(req[r].products))
      IN /\ req[r].candidates = SubSeq(req[r].products, 1, n)
         /\ req[r].outcome = "results" =>
              /\ req[r].debug.considered = n
              /\ \A i \in 1..Len(req[r].results) :
                   /\ \E j \in 1..n :
                        req[r].results[i].product = req[r].products[j]
                   /\ \A j \in (n + 1)..Len(req[r].products) :
                        req[r].results[i].product.id # req[r].products[j].id

\* 200 of the 250 are scored, and the last of the store would have
\* outscored the best result
C3_Witness ==
  /\ req[1].outcome = "results"
  /\ Len(req[1].products) = LargeCatalogSize
  /\ req[1].config.maxCandidates = 2 * BATCH_SIZE
  /\ req[1].debug.considered = 2 * BATCH_SIZE
  /\ Len(req[1].results) > 0
  /\ scoreProduct(req[1].config, req[1].analysis, req[1].combinedQueryText,
                  ExtractTargetPrice(req[1].queryText), req[1].queryEmbedding,
                  cache, req[1].products,
                  req[1].products[LargeCatalogSize]).score
       > req[1].results[1].score

\* C4 (as the code has it): when the caller selects anthropic for the
\* embeddings, every createEmbeddings call of the request is sent to openai
\* with the configured embedding model, or text-embedding-3-small when none
\* is configured, and the request never fails with the
\* unsupported-capability error.
C4_AnthropicEmbeddingsSentToOpenAI ==
  \A r \in Requests :
    selectedEmbeddingProvider(req[r].config) = "anthropic" =>
      /\ \A i \in 1..Len(req[r].calls) :
           req[r].calls[i].op = "createEmbeddings" =>
             /\ req[r].calls[i].provider = "openai"
             /\ req[r].calls[i].model =
                  StrOr(req[r].config, "embeddingModel", "text-embedding-3-small")
      /\ req[r].failure.raised.kind # "unsupported"
      /\ req[r].qFailure.raised.kind # "unsupported"
      /\ req[r].iFailure.raised.kind # "unsupported"

C4_Witness ==
  /\ selectedEmbeddingProvider(req[1].config) = "anthropic"
  /\ req[1].outcome = "results"
  /\ Len(CallsOf(1, "createEmbeddings")) = 2

\* C4 (as claimed): when the caller selects anthropic for the embeddings,
\* no createEmbeddings call goes to another provider, and a request that
\* reaches the embedding stage fails with the unsupported-capability error.
C4_NoSubstitution ==
  \A r \in Requests :
    selectedEmbeddingProvider(req[r].config) = "anthropic" =>
      /\ \A i \in 1..Len(req[r].calls) :
           req[r].calls[i].op = "createEmbeddings" =>
             req[r].calls[i].provider = "anthropic"
      /\ Fetched(r) =>
           /\ req[r].outcome = "error"
           /\ req[r].failure.thrown.kind = "unsupported"

\* C5 (as claimed): when a classification, description, query-embedding or
\* item-embedding call fails with an auth, rate-limit, transport or
\* unsupported-capability error, performSearch ends with an error of the
\* same kind and returns no result list.
C5_HardErrorsKeepKind ==
  \A r \in Requests :
    (/\ req[r].outcome = "error"
     /\ req[r].failure.raised.kind \in {"auth", "rateLimit", "transport", "unsupported"})
    => /\ req[r].pc = "done"
       /\ req[r].results = <<>>
       /\ req[r].failure.thrown.kind = req[r].failure.raised.kind

\* C6: the item task submits texts only of items whose id was not in the
\* cache when it began, and a task whose item set is that of an earlier
\* task that ended with every text answered issues no createEmbeddings call.
C6_CachedItemsNotResubmitted ==
  \A r \in Requests :
    LET uncached == {embeddingTextOf(req[r].candidates[j]) :
                       j \in {k \in 1..Len(req[r].candidates) :
                                req[r].candidates[k].id \notin req[r].cachedAtStart}}
        items == ItemCalls(r)
    IN /\ \A i \in 1..Len(items) :
            \A k \in 1..Len(items[i].texts) : items[i].texts[k] \in uncached
       /\ req[r].repeatOfCompleted => items = <<>>

C6_Witness ==
  /\ req[1].repeatOfCompleted
  /\ req[1].outcome = "results"
  /\ Len(req[1].candidates) > BATCH_SIZE
  /\ req[1].cachedAtStart # {}
  /\ ItemCalls(1) = <<>>

\* C7 (as the code has it): an item task that meets no provider failure
\* makes one createEmbeddings call for every BATCH_SIZE-item slice of the
\* missing list that holds an item with text, so at most
\* ceil(missing / BATCH_SIZE) calls, each with 1 to BATCH_SIZE texts.
C7_OneCallPerSliceWithText ==
  \A r \in Requests :
    req[r].iTask = "ok" =>
      LET missing == req[r].missing
          items == ItemCalls(r)
          slices == {s \in 0..(CeilDiv(Len(missing), BATCH_SIZE) - 1) :
                       \E j \in (s * BATCH_SIZE + 1)..
                                MinOf(Len(missing), (s + 1) * BATCH_SIZE) :
                         HasText(missing[j])}
      IN /\ Len(items) = Cardinality(slices)
         /\ Len(items) <= CeilDiv(Len(missing), BATCH_SIZE)
         /\ \A i \in 1..Len(items) :
              Len(items[i].texts) \in 1..BATCH_SIZE

\* 201 missing items, 100 of them with text, two calls
C7_Witness ==
  /\ req[1].iTask = "ok"
  /\ Len(req[1].missing) = 2 * BATCH_SIZE + 1
  /\ Cardinality({j \in 1..Len(req[1].missing) : HasText(req[1].missing[j])})
       = BATCH_SIZE
  /\ Len(ItemCalls(1)) = 2

\* C7 (as claimed): an item task that meets no provider failure makes
\* exactly ceil(N / BATCH_SIZE) calls, each with at most BATCH_SIZE texts,
\* N being the number of items that need embeddings: the missing items, or
\* the missing items that have text.
C7_CeilOfNeeded ==
  \A r \in Requests :
    req[r].iTask = "ok" =>
      LET missing == req[r].missing
          items == ItemCalls(r)
          withText == Cardinality({j \in 1..Len(missing) : HasText(missing[j])})
      IN /\ \/ Len(items) = CeilDiv(Len(missing), BATCH_SIZE)
            \/ Len(items) = CeilDiv(withText, BATCH_SIZE)
         /\ \A i \in 1..Len(items) : Len(items[i].texts) <= BATCH_SIZE

\* C8: the step in which a batch call of the item task fails leaves the
\* cache as it was and hands the error to the caller; the task has written
\* no item of that batch or of a later one, and what earlier batches wrote
\* and what was cached before is in the cache; no step changes the value of
\* an entry.
C8_BatchFailureKeepsCache ==
  [][/\ \A id \in DOMAIN cache : id \in DOMAIN cache' /\ cache'[id] = cache[id]
     /\ \A r \in Requests :
          (req[r].iTask = "pending" /\ req'[r].iTask = "failed") =>
            /\ cache' = cache
            /\ req'[r].iFailure.thrown.kind # ""
            /\ req[r].outcome = "none" =>
                 /\ req'[r].outcome = "error"
                 /\ req'[r].failure = req'[r].iFailure
            /\ req'[r].written
                 \cap IdsOf(SubSeq(req[r].missing, req[r].batchStart + 1,
                                   Len(req[r].missing))) = {}
            /\ (req[r].written \cup req[r].cachedAtStart) \subseteq DOMAIN cache'
    ]_vars

\* the second call of the task failed after the first had been stored
C8_Witness ==
  /\ req[1].iTask = "failed"
  /\ req[1].batchStart > 0
  /\ req[1].written # {}
  /\ req[1].written \subseteq DOMAIN cache
  /\ req[1].outcome = "error"

\* C9: no step removes an id from the cache.
C9_CacheOnlyGrows == [][DOMAIN cache \subseteq DOMAIN cache']_vars

\* the cache holds entries while one request has returned results, and
\* another has failed or been rejected
C9_Witness ==
  /\ DOMAIN cache # {}
  /\ \E r \in Requests : req[r].outcome = "results"
  /\ \E r \in Requests : req[r].outcome \in {"error", "rejected"}

\* C10: a furniture request whose embedding tasks both resolved and whose
\* candidates were all scored below minScore (or that has no candidate) has
\* returned an empty result list with topScore 0, and no error.
C10_NoMatchReturnsEmptyList ==
  \A r \in Requests :
    (/\ req[r].pc = "done"
     /\ req[r].classified
     /\ StartsWith(req[r].analysisContent, "FURNITURE")
     /\ req[r].qTask = "ok"
     /\ req[r].iTask = "ok"
     /\ ~scoringThrows(req[r])
     /\ \A i \in 1..Len(req[r].candidates) :
          scoredOf(req[r], cache)[i].score < req[r].config.minScore * 1000)
    => /\ req[r].outcome = "results"
       /\ req[r].results = <<>>
       /\ req[r].debug.topScore = 0
       /\ req[r].debug.resultsCount = 0
       /\ req[r].failure = NoFailure

\* three candidates, all below minScore
C10_Witness ==
  /\ req[1].outcome = "results"
  /\ Len(req[1].candidates) = 3
  /\ req[1].results = <<>>
  /\ req[1].debug.topScore = 0

(***************************************************************************)
(* The rejection reason, the parsed fields, the composed query, the        *)
(* sub-scores, the diagnostics, and racing cache writes.                   *)
(***************************************************************************)

\* C11: every response of a request whose classification content does not
\* start with the furniture marker carries a non-empty rejection reason,
\* whatever that content is (an empty content and a bare "NOT_FURNITURE:"
\* included).
C11_RejectionReasonPopulated ==
  \A r \in Requests :
    req[r].outcome = "rejected" => req[r].debug.rejectionReason # ""

\* the classification content of request r starts with the furniture marker
\* and none of the three field patterns matches in it
UnparsedFurniture(r) ==
  /\ req[r].classified
  /\ StartsWith(req[r].analysisContent, "FURNITURE")
  /\ ~MatchLineField(req[r].analysisContent, "Category:").found
  /\ ~MatchLineField(req[r].analysisContent, "Type:").found
  /\ ~MatchRestField(req[r].analysisContent, "Description:").found

\* the description call of request r returned
Described(r) == CallsOf(r, "fetchAllProducts") # <<>>

\* C12: a request classified as furniture whose content has no recognisable
\* Category:/Type:/Description: field goes on without an error of its own:
\* category and type are empty, the description is the raw content, the
\* composed query has no type and no category tag, every error it ends with
\* was raised by a failing call, and with both embedding tasks resolved it
\* ends with a result list in descending order of score.
C12_UnparsedFurnitureDegrades ==
  \A r \in Requests :
    UnparsedFurniture(r) =>
      /\ req[r].analysis = [isFurniture |-> TRUE, category |-> "", type |-> "",
                            description |-> req[r].analysisContent]
      /\ Described(r) =>
            req[r].combinedQueryText =
              IF req[r].visionDescription # "" /\ req[r].queryText # ""
              THEN req[r].visionDescription \o ". user preferences: "
                     \o req[r].queryText
              ELSE IF req[r].queryText # ""
              THEN "user preferences: " \o req[r].queryText
              ELSE req[r].visionDescription
      /\ req[r].outcome = "error" =>
            req[r].failure.raised.kind \in {"auth", "rateLimit", "transport", "store"}
      /\ (req[r].pc = "done" /\ req[r].qTask = "ok" /\ req[r].iTask = "ok") =>
            /\ req[r].outcome = "results"
            /\ req[r].failure = NoFailure
            /\ \A i, j \in 1..Len(req[r].results) :
                  i < j => req[r].results[i].score >= req[r].results[j].score

\* the raw content "FURNITURE" ranked two products or more
C12_Witness ==
  /\ UnparsedFurniture(1)
  /\ req[1].outcome = "results"
  /\ Len(req[1].results) >= 2
  /\ req[1].debug.analysis.type = ""
  /\ req[1].debug.analysis.description = "FURNITURE"
  /\ req[1].combinedQueryText =
       "A wooden oak bench with slats. user preferences: oak under $100"

\* requests r1 and r2 were started with the same keys and config
SameButText(r1, r2) ==
  /\ req[r1].calls # <<>> /\ req[r2].calls # <<>>
  /\ req[r1].config = req[r2].config
  /\ req[r1].visionApiKey = req[r2].visionApiKey
  /\ req[r1].finalEmbeddingApiKey = req[r2].finalEmbeddingApiKey

\* C13: the caller's free text does not reach the classification stage.
\* Two requests that differ only in queryText issue the same classification
\* call, and with the same classification content they take the same
\* furniture / non-furniture decision and parse the same category and type.
\* The text is absent from the classification call and present in the
\* prompt of the description call and in the composed query.
C13_TextDoesNotReachClassification ==
  /\ \A r1, r2 \in Requests :
       SameButText(r1, r2) =>
         /\ req[r1].calls[1] = req[r2].calls[1]
         /\ (/\ req[r1].classified /\ req[r2].classified
             /\ req[r1].analysisContent = req[r2].analysisContent) =>
               /\ (req[r1].outcome = "rejected") = (req[r2].outcome = "rejected")
               /\ req[r1].analysis.isFurniture = req[r2].analysis.isFurniture
               /\ req[r1].analysis.category = req[r2].analysis.category
               /\ req[r1].analysis.type = req[r2].analysis.type
  /\ \A r \in Requests :
       (req[r].calls # <<>> /\ req[r].queryText # "") =>
         /\ req[r].calls[1].stage = "classification"
         /\ ~Includes(req[r].calls[1].prompt, req[r].queryText)
         /\ ~Includes(req[r].calls[1].system, req[r].queryText)
         /\ Len(req[r].calls) >= 2 =>
               /\ req[r].calls[2].stage = "description"
               /\ Includes(req[r].calls[2].prompt, req[r].queryText)
         /\ Described(r) => Includes(req[r].combinedQueryText, req[r].queryText)

\* one request with a free text and one without, same classification
\* content, both past the description stage
C13_Witness ==
  /\ SameButText(1, 2)
  /\ req[1].queryText # req[2].queryText
  /\ req[1].analysisContent = ClassificationFurniture
  /\ req[2].analysisContent = ClassificationFurniture
  /\ Described(1) /\ Described(2)
  /\ req[1].combinedQueryText # req[2].combinedQueryText
  /\ req[1].analysis.type = "bench" /\ req[2].analysis.type = "bench"

\* the tags of request r, each empty when its source is
TypeTag(r) ==
  IF req[r].analysis.type # ""
  THEN "furniture type: " \o req[r].analysis.type ELSE ""

CategoryTag(r) ==
  IF req[r].analysis.category # ""
  THEN "category: " \o req[r].analysis.category ELSE ""

PreferencesTag(r) ==
  IF req[r].queryText # ""
  THEN "user preferences: " \o req[r].queryText ELSE ""

\* C14 (amended): the composed query is the join with ". " of, in this
\* order, the type tag (only if a type was parsed), the category tag (only
\* if a category was parsed), the description-stage text (only if it is not
\* empty) and the preferences tag (only if the caller supplied free text).
C14_QueryJoinsNonEmptySegments ==
  \A r \in Requests :
    Described(r) =>
      req[r].combinedQueryText =
        JoinWith(SelectSeq(<<TypeTag(r), CategoryTag(r),
                             req[r].visionDescription, PreferencesTag(r)>>,
                           LAMBDA seg : seg # ""),
                 ". ")

\* an empty description between two tags and a free text
C14_Witness ==
  /\ Described(1)
  /\ req[1].visionDescription = ""
  /\ req[1].combinedQueryText =
       "furniture type: bench. category: seating. user preferences: oak under $100"

\* C14 as stated: the description-stage text is a segment of the join
\* whether or not it is empty.
C14_DescriptionAlwaysJoined ==
  \A r \in Requests :
    Described(r) =>
      req[r].combinedQueryText =
        JoinWith(SelectSeq(<<TypeTag(r), CategoryTag(r)>>, LAMBDA seg : seg # "")
                   \o <<req[r].visionDescription>>
                   \o SelectSeq(<<PreferencesTag(r)>>, LAMBDA seg : seg # ""),
                 ". ")

\* C15: typeMatch is the value of the first stage of the ladder that
\* applies (1.0, 0.8, 0.6, 0.4) and otherwise 0.0: every application of
\* typeMatchScore yields one of these five values, 0.4 for the query type
\* "bench" against the product type "stool", and 0.0 for a query type that
\* matches neither the type field nor the title nor the description and
\* has no entry in the synonym table.
C15_TypeMatchIsLadderValue ==
  (probe.fn = "typeMatchScore" /\ probe.applied) =>
    /\ ~probe.threw
    /\ probe.value \in {0, 400, 600, 800, 1000}
    /\ (probe.analysisType = "bench" /\ probe.product.type = "stool") =>
          probe.value = 400
    /\ (/\ probe.analysisType # ""
        /\ typeTextMatch(probe.analysisType, probe.product) = 0
        /\ similarTypes(probe.analysisType) = <<>>
        /\ similarTypes(StripTrailingS(probe.analysisType)) = <<>>) =>
          probe.value = 0

\* the overlap of the two arguments of the probe
OverlapLen == MinOf(Len(probe.a), Len(probe.b))

\* C20: cosineSimilarity(a, b) is its value on the first min(|a|, |b|)
\* elements of a and of b, so that what lies past the overlap never changes
\* it; it is 0 when the overlap is empty and when either vector is all zero
\* over the overlap, and it is always a number between -1 and 1.
C20_CosineOverOverlap ==
  (probe.fn = "cosineSimilarity" /\ probe.applied) =>
    /\ probe.value = cosineSimilarity(SubSeq(probe.a, 1, OverlapLen),
                                      SubSeq(probe.b, 1, OverlapLen))
    /\ OverlapLen = 0 => probe.value = 0
    /\ (\A i \in 1..OverlapLen : probe.a[i] = 0) => probe.value = 0
    /\ (\A i \in 1..OverlapLen : probe.b[i] = 0) => probe.value = 0
    /\ probe.value \in -1000..1000

\* a longer vector, not zero past the overlap, against a shorter one that
\* is zero over it; and the value of a pair that is not zero
C20_Witness ==
  /\ probe.fn = "cosineSimilarity" /\ probe.applied
  /\ probe.a = <<0, 2>> /\ probe.b = <<2>>
  /\ probe.value = 0
  /\ cosineSimilarity(<<2, -1>>, <<2>>) = 1000

\* the names in the explanation of a scored product
SubScoreNames(sp) == {sp.explanation[i].name : i \in 1..Len(sp.explanation)}

\* the sub-score the explanation of a scored product gives under a name,
\* 0 when it gives none
SubScore(sp, name) ==
  IF name \in SubScoreNames(sp)
  THEN sp.explanation[CHOOSE i \in 1..Len(sp.explanation) :
                        sp.explanation[i].name = name].value
  ELSE 0

\* C16: the composite of every ranked item is imageWeight * semantic +
\* 0.25 * (0.6 * typeMatch + 0.4 * categoryMatch) + textWeight * lexical +
\* priceWeight * price: what is left of it after the three weighted terms
\* is 0.15 * typeMatch + 0.10 * categoryMatch, whatever the configured
\* weights are (sub-scores and weights in thousandths, the composite in
\* millionths).
C16_TypeCategoryTermIsFixed ==
  \A r \in Requests :
    req[r].outcome = "results" =>
      \A i \in 1..Len(req[r].results) :
        LET sp == req[r].results[i]
            config == req[r].config
        IN sp.score - config.imageWeight * SubScore(sp, "semantic")
                    - config.textWeight * SubScore(sp, "lexical")
                    - config.priceProximityWeight * SubScore(sp, "price")
             = 150 * SubScore(sp, "typeMatch") + 100 * SubScore(sp, "categoryMatch")

\* a ranked item with full type and category match under weights that are
\* not the defaults
C16_Witness ==
  /\ req[1].outcome = "results"
  /\ req[1].config.imageWeight = 1000
  /\ req[1].config.textWeight = 0
  /\ Len(req[1].results) > 0
  /\ SubScore(req[1].results[1], "typeMatch") = 1000
  /\ SubScore(req[1].results[1], "categoryMatch") = 1000
  /\ SubScore(req[1].results[1], "semantic") > 0
  /\ req[1].results[1].score =
       1000 * SubScore(req[1].results[1], "semantic") + 250000

\* the scored candidates of request r: what candidates.map yields once both
\* embedding tasks have resolved, and afterwards the ranked items
ScoredNow(r) ==
  IF /\ req[r].pc = "embed" /\ req[r].qTask = "ok" /\ req[r].iTask = "ok"
     /\ ~scoringThrows(req[r])
  THEN scoredOf(req[r], cache)
  ELSE req[r].results

\* the names of an explanation, in order
NamesOf(sp) == [i \in 1..Len(sp.explanation) |-> sp.explanation[i].name]

\* C17 (amended): the explanation of every scored candidate names
\* typeMatch, categoryMatch, semantic and lexical, in this order, whatever
\* their weights are; it names price, last, exactly when
\* priceProximityWeight is above 0.
C17_ExplanationNamesSubScores ==
  \A r \in Requests :
    \A i \in 1..Len(ScoredNow(r)) :
      NamesOf(ScoredNow(r)[i]) =
        IF req[r].config.priceProximityWeight > 0
        THEN <<"typeMatch", "categoryMatch", "semantic", "lexical", "price">>
        ELSE <<"typeMatch", "categoryMatch", "semantic", "lexical">>

\* a ranked item of a request with text and price weights 0: lexical is
\* named, price is not
C17_Witness ==
  /\ req[1].outcome = "results"
  /\ req[1].config.priceProximityWeight = 0
  /\ req[1].config.textWeight = 0
  /\ Len(req[1].results) > 0
  /\ SubScoreNames(req[1].results[1]) =
       {"typeMatch", "categoryMatch", "semantic", "lexical"}

\* C17 as stated: every explanation names all five sub-scores, price
\* included, also when its weight is 0.
C17_ExplanationNamesAllFive ==
  \A r \in Requests :
    \A i \in 1..Len(ScoredNow(r)) :
      SubScoreNames(ScoredNow(r)[i]) =
        {"typeMatch", "categoryMatch", "semantic", "lexical", "price"}

\* C18: the diagnostics of every furniture request that returned a list
\* report totalProducts = the size of the catalog the store returned,
\* before any price-range filter; considered = the size of the candidate
\* set; priceFiltered = true exactly when the price-range filter was
\* applied to the catalog; topScore = the composite of the first ranked
\* item, or 0 when the list is empty.
C18_DiagnosticsReportCatalog ==
  \A r \in Requests :
    req[r].outcome = "results" =>
      /\ req[r].debug.totalProducts = req[r].fetchedCount
      /\ req[r].debug.considered = Len(req[r].candidates)
      /\ req[r].debug.priceFiltered = priceRangeApplies(req[r].config)
      /\ req[r].debug.topScore =
           IF req[r].results # <<>> THEN req[r].results[1].score ELSE 0

\* what request r, alone, stores for the candidate with this id: the
\* embedding its model gives for the candidate's text
StoredAlone(r, id) ==
  LET i == CHOOSE k \in 1..Len(req[r].candidates) : req[r].candidates[k].id = id
  IN upstreamEmbedding(embeddingModelOf(req[r].config),
                       embeddingTextOf(req[r].candidates[i]))

\* C19: requests that race on the same missing id write equivalent values:
\* for every id a request has written, the value the cache holds is the one
\* that request would have stored alone, whatever provider and model the
\* requests name.
C19_RacingWritesEquivalent ==
  \A r \in Requests :
    \A id \in req[r].written :
      id \in DOMAIN cache /\ cache[id] = StoredAlone(r, id)

(***************************************************************************)
(* The order of the stages, the ranking, the parsers, the price signal,    *)
(* the mapping of batch responses, and the keys.                           *)
(***************************************************************************)

\* request r has scored its candidates: it returned a list, or scoring threw
Scored(r) ==
  \/ req[r].outcome = "results"
  \/ req[r].outcome = "error" /\ req[r].failure.raised = ScoringError

\* C21: the query-embedding task and the item-embedding task of a request
\* are started in the same step, so that neither waits for the other, and
\* a request has scored only if its query embedding has arrived and its
\* item task has ended normally with no batch left to request.
C21_ScoringAfterBothTasks ==
  \A r \in Requests :
    /\ (req[r].qTask = "none") = (req[r].iTask = "none")
    /\ Scored(r) =>
         /\ req[r].qTask = "ok"
         /\ req[r].iTask = "ok"
         /\ nextBatchStart(req[r].missing, req[r].batchStart + BATCH_SIZE) < 0
         /\ ItemCalls(r) # <<>> =>
               \E k \in 1..(Len(req[r].calls) - 1) :
                 /\ req[r].calls[k].stage = "query"
                 /\ req[r].calls[k + 1].stage = "items"

\* a response after the item task went through three batches with two calls
C21_Witness ==
  /\ req[1].outcome = "results"
  /\ req[1].qTask = "ok" /\ req[1].iTask = "ok"
  /\ req[1].debug.considered = 2 * BATCH_SIZE + 1
  /\ Len(ItemCalls(1)) = 2
  /\ req[1].written # {}

\* the place of a stage in the sequence of a request
StageRank(stage) ==
  CASE stage \in {"idle"} -> 0
    [] stage \in {"classify", "classification"} -> 1
    [] stage \in {"describe", "description"} -> 2
    [] stage \in {"fetch", "catalog"} -> 3
    [] stage \in {"embed", "query", "items"} -> 4
    [] stage \in {"done"} -> 5

\* C22: a request goes through classification, description (furniture
\* only), catalog fetch, embeddings, scoring and ranking in this order,
\* never backward: no step lowers its stage, removes or repeats a call, or
\* changes an outcome once set; it issues at most two analyzeImage calls
\* (one per stage), one fetch and one query-embedding call; after a call
\* has failed no call of that task follows; and it ends as rejected, as a
\* (possibly empty) result list, or as an error.
C22_LinearNoRetry ==
  [][\A r \in Requests :
       LET old == req[r]
           new == req'[r]
       IN /\ StageRank(new.pc) >= StageRank(old.pc)
          /\ Len(new.calls) >= Len(old.calls)
          /\ SubSeq(new.calls, 1, Len(old.calls)) = old.calls
          /\ \A i, j \in 1..Len(new.calls) :
                i < j => /\ StageRank(new.calls[i].stage) <= StageRank(new.calls[j].stage)
                         /\ new.calls[j].stage # "items" =>
                               new.calls[i].stage # new.calls[j].stage
          /\ old.outcome # "none" => new.outcome = old.outcome
          /\ (new.outcome # "none") = (new.pc = "done")
          /\ new.outcome \in {"none", "rejected", "results", "error"}
          /\ new.outcome = "rejected" => new.results = <<>>
          /\ (new.outcome = "error") = (new.failure # NoFailure)
          /\ (old.pc = "done" /\ old.iTask # "pending") => new.calls = old.calls
          /\ old.iTask = "failed" => new.calls = old.calls
  ]_vars

\* the description call failed: two analyzeImage calls, nothing after them
C22_Witness ==
  /\ req[1].outcome = "error"
  /\ req[1].classified
  /\ Len(req[1].calls) = 2
  /\ req[1].calls[2].stage = "description"
  /\ req[1].failure.raised.kind = "rateLimit"

\* where the product of a ranked item stands among the candidates of r
CandidateIndex(r, sp) ==
  CHOOSE k \in 1..Len(req[r].candidates) : req[r].candidates[k] = sp.product

\* C23: the returned list is in non-increasing order of composite score,
\* and two items with the same composite score stand in the order their
\* products have in the candidate set.
C23_DescendingStable ==
  \A r \in Requests :
    req[r].outcome = "results" =>
      \A i, j \in 1..Len(req[r].results) :
        i < j =>
          LET a == req[r].results[i]
              b == req[r].results[j]
          IN /\ a.score >= b.score
             /\ a.score = b.score => CandidateIndex(r, a) < CandidateIndex(r, b)

\* three ranked items, the last two with the same composite score
C23_Witness ==
  /\ req[1].outcome = "results"
  /\ Len(req[1].results) = 3
  /\ req[1].results[1].score > req[1].results[2].score
  /\ req[1].results[2].score = req[1].results[3].score
  /\ req[1].results[2].product = pBench
  /\ req[1].results[3].product = pSofa

\* the positions where a line of s begins
LineStarts(s) == {1} \cup {k + 1 : k \in {j \in 1..Len(s) : CharAt(s, j) = "\n"}}

\* the value of a field read by line prefix: the rest of the first line
\* that begins with the prefix (in any case), trimmed and in lower case;
\* empty when no line begins with it
LinePrefixValue(s, prefix) ==
  LET ls == ToLowerCase(s)
      lp == ToLowerCase(prefix)
      at == {k \in LineStarts(s) : PrefixAt(ls, lp, k)}
  IN IF at = {} THEN ""
     ELSE LET g == Least(at) + Len(prefix)
          IN ToLowerCase(Trim(SubSeq(s, g, LineEnd(s, g))))

\* C24: category and type are read by line prefix: from the first line
\* that begins with "Category:" / "Type:" in any case, the rest of that
\* line, trimmed and lower-cased; never from the middle of a line nor from
\* a following line; empty when no line begins with the prefix.
C24_FieldsReadByLinePrefix ==
  (probe.fn = "parseAnalysis" /\ probe.applied) =>
    /\ probe.analysis.category = LinePrefixValue(probe.content, "Category:")
    /\ probe.analysis.type = LinePrefixValue(probe.content, "Type:")

\* the maximal runs of [a-z0-9] of s in lower case, as pairs of positions
TokenRuns(s) ==
  LET ls == ToLowerCase(s)
      tok(k) == k >= 1 /\ k <= Len(ls) /\ IsTokenChar(CharAt(ls, k))
  IN {ab \in (1..Len(ls)) \X (1..Len(ls)) :
        /\ ab[1] <= ab[2]
        /\ \A k \in ab[1]..ab[2] : tok(k)
        /\ ~tok(ab[1] - 1)
        /\ ~tok(ab[2] + 1)}

RunText(s, ab) == SubSeq(ToLowerCase(s), ab[1], ab[2])

\* found / total in thousandths, 0 when there is no query token or no
\* item token
RatioOf(found, total, itemTokens) ==
  IF total = 0 \/ itemTokens = {} THEN 0 ELSE (found * 1000) \div total

\* C25 (amended): the lexical signal is the number of query tokens that
\* occur among the item's tokens over the number of query tokens, between
\* 0 and 1, and 0 when either side has no token; the tokens of a text are
\* the maximal runs of [a-z0-9] of the text in lower case, every other
\* character separating tokens.
C25_LexicalOverAlnumRuns ==
  (probe.fn = "computeLexicalScore" /\ probe.applied) =>
    LET itemTokens == {RunText(probe.text, ab) : ab \in TokenRuns(probe.text)}
        found == {ab \in TokenRuns(probe.query) :
                    RunText(probe.query, ab) \in itemTokens}
    IN /\ probe.value = RatioOf(Cardinality(found),
                                Cardinality(TokenRuns(probe.query)), itemTokens)
       /\ probe.value \in 0..1000

\* "arm-chair" is the two tokens "arm" and "chair": both occur in
\* "Arm chair"
C25_Witness ==
  /\ probe.fn = "computeLexicalScore" /\ probe.applied
  /\ probe.query = "arm-chair"
  /\ probe.text = "Arm chair"
  /\ probe.value = 1000
  /\ tokenize(probe.query) = <<"arm", "chair">>

\* C25 as stated: the characters outside [a-z0-9] are stripped before the
\* split on white space, so that "arm-chair" is the one token "armchair".
C25_LexicalOverStrippedWords ==
  (probe.fn = "computeLexicalScore" /\ probe.applied) =>
    LET qTokens == tokenizeDeleting(probe.query)
        tSeq == tokenizeDeleting(probe.text)
        itemTokens == {tSeq[i] : i \in 1..Len(tSeq)}
        found == {i \in 1..Len(qTokens) : qTokens[i] \in itemTokens}
    IN probe.value = RatioOf(Cardinality(found), Len(qTokens), itemTokens)

\* the price signal of a price against the mean price of a list of
\* products, in thousandths: 1 - min(|price - mean| / mean, 0.5)
SignalAgainstMean(price, products) ==
  LET sum == SumPrices(products)
      n == Len(products)
  IN IF sum > 0
     THEN 1000 - MinOf((Abs(price * n - sum) * 1000) \div sum, 500)
     ELSE 500

\* C26: when the free text yields no target price, the price signal of
\* every ranked item is computed against the mean price of the candidate
\* set, the first maxCandidates items, and lies between 0.5 and 1.
C26_PriceAgainstCandidateMean ==
  \A r \in Requests :
    (/\ req[r].outcome = "results"
     /\ req[r].config.priceProximityWeight > 0
     /\ ~ExtractTargetPrice(req[r].queryText).found) =>
      \A i \in 1..Len(req[r].results) :
        LET sp == req[r].results[i]
        IN /\ SubScore(sp, "price") =
                SignalAgainstMean(sp.product.price, req[r].candidates)
           /\ SubScore(sp, "price") \in 500..1000

\* C27: mapped back into an empty cache, the i-th embedding of a response
\* is stored under the id of the i-th item of the batch that has a text,
\* wherever the items without text stand in the batch; nothing else is
\* stored, and an item without text gets no entry.
C27_EmbeddingsStoredUnderOwnId ==
  (probe.fn = "storeEmbeddings" /\ probe.applied) =>
    LET withText == SelectSeq(probe.batch, HasText)
    IN /\ Len(probe.embeddings) <= Len(withText)
       /\ DOMAIN probe.stored =
            {withText[i].id : i \in 1..Len(probe.embeddings)}
       /\ \A i \in 1..Len(probe.embeddings) :
            /\ probe.stored[withText[i].id] = probe.embeddings[i]
            /\ probe.stored[withText[i].id] =
                 upstreamEmbedding("text-embedding-3-small",
                                   embeddingTextOf(withText[i]))
       /\ \A k \in 1..Len(probe.batch) :
            ~HasText(probe.batch[k]) => probe.batch[k].id \notin DOMAIN probe.stored

\* an item without text between two items with text
C27_Witness ==
  /\ probe.fn = "storeEmbeddings" /\ probe.applied
  /\ probe.batch = <<pSofa, pBlank, pBench>>
  /\ Len(probe.embeddings) = 2
  /\ DOMAIN probe.stored = {"p3", "p1"}
  /\ probe.stored["p1"] # probe.stored["p3"]

\* C28: neither embedding task ends the other.  The step in which the
\* query call fails leaves the item task and the cache as they were, and
\* the step in which an item batch fails leaves the query task as it was;
\* after the request has reported its error the item call in flight still
\* writes its embeddings to the cache, and the report stays as it was.
C28_FailureDoesNotCancelOtherTask ==
  [][\A r \in Requests :
       /\ (req[r].qTask = "pending" /\ req'[r].qTask = "failed") =>
            /\ req'[r].iTask = req[r].iTask
            /\ req'[r].batchStart = req[r].batchStart
            /\ cache' = cache
       /\ (req[r].iTask = "pending" /\ req'[r].iTask = "failed") =>
            /\ req'[r].qTask = req[r].qTask
            /\ req'[r].iFailure # NoFailure
       /\ (req[r].outcome = "error" /\ req'[r].written # req[r].written) =>
            /\ req[r].iTask = "pending"
            /\ req[r].written \subseteq req'[r].written
            /\ req'[r].written \subseteq DOMAIN cache'
            /\ req'[r].outcome = "error"
            /\ req'[r].failure = req[r].failure]_vars

\* the query call failed, the error was reported, and the item task wrote
\* to the cache afterwards
C28_Witness ==
  /\ req[1].outcome = "error"
  /\ req[1].qTask = "failed"
  /\ req[1].failure = req[1].qFailure
  /\ req[1].iTask = "ok"
  /\ req[1].writtenAtQueryFailure = {}
  /\ req[1].written # {}
  /\ req[1].written \subseteq DOMAIN cache

\* C29: the vision key goes into an embedding call only when the embedding
\* calls are sent to the vision provider.
C29_VisionKeyOnlyToVisionProvider ==
  \A r \in Requests :
    \A k \in 1..Len(req[r].calls) :
      (req[r].calls[k].op = "createEmbeddings"
         /\ req[r].calls[k].apiKey = req[r].visionApiKey) =>
        req[r].calls[k].provider = visionProviderOf(req[r].config)

\* C30: in what a request scores, a candidate with an empty type gets no
\* typeMatch of 1.0 or 0.8 and a candidate with an empty category gets no
\* positive categoryMatch when the analysis has the field; typeMatch is
\* one of 0, 0.4, 0.6, 0.8, 1.0 and categoryMatch one of 0, 0.7, 1.0, and
\* each is 0 when the analysis lacks the field.
C30_EmptyFieldNeverMatches ==
  \A r \in Requests :
    LET scored == ScoredNow(r)
    IN \A i \in 1..Len(scored) :
         LET sp == scored[i]
             typeMatch == SubScore(sp, "typeMatch")
             categoryMatch == SubScore(sp, "categoryMatch")
         IN /\ typeMatch \in {0, 400, 600, 800, 1000}
            /\ categoryMatch \in {0, 700, 1000}
            /\ req[r].analysis.type = "" => typeMatch = 0
            /\ req[r].analysis.category = "" => categoryMatch = 0
            /\ (req[r].analysis.type # "" /\ sp.product.type = "") =>
                 typeMatch \notin {800, 1000}
            /\ (req[r].analysis.category # "" /\ sp.product.category = "") =>
                 categoryMatch = 0

====
